---- MODULE Spec2Model ----
(***************************************************************************)
(* A model of sources/browser.py (class Browser): the navigation           *)
(* controller go_to, the content extractor get_text / is_sentence, the URL *)
(* sanitizer clean_url / is_link_valid / get_navigable and the form        *)
(* automation fill_form_inputs / find_and_click_btn /                      *)
(* find_and_click_submission.                                              *)
(*                                                                         *)
(* Python strings are modelled as sequences of one-character strings, so   *)
(* that lower(), startswith(), endswith(), split() and the regular         *)
(* expressions are computed character by character.                        *)
(***************************************************************************)
EXTENDS Integers, Sequences, FiniteSets, TLC

(***************************************************************************)
(* Characters and strings                                                  *)
(***************************************************************************)
UpperChars == <<"A", "B", "C", "D", "E", "F", "G", "H", "I", "J", "K", "L", "M",
                "N", "O", "P", "Q", "R", "S", "T", "U", "V", "W", "X", "Y", "Z">>

LowerChars == <<"a", "b", "c", "d", "e", "f", "g", "h", "i", "j", "k", "l", "m",
                "n", "o", "p", "q", "r", "s", "t", "u", "v", "w", "x", "y", "z">>

DigitChars == {"0", "1", "2", "3", "4", "5", "6", "7", "8", "9"}

SpaceChars == {" ", "\n", "\t", "\r"}

Range(s) == {s[i] : i \in DOMAIN s}

IsUpper(c) == \E i \in DOMAIN UpperChars : UpperChars[i] = c

IsLower(c) == \E i \in DOMAIN LowerChars : LowerChars[i] = c

\* str.isdigit() on one character
IsDigit(c) == c \in DigitChars

\* str.isspace() on one character
IsSpace(c) == c \in SpaceChars

\* a character matched by the regular expression \w
IsWordChar(c) == IsUpper(c) \/ IsLower(c) \/ IsDigit(c) \/ c = "_"

\* str.lower() on one character
LowerChar(c) ==
    IF IsUpper(c)
    THEN LowerChars[CHOOSE i \in DOMAIN UpperChars : UpperChars[i] = c]
    ELSE c

\* str.lower()
StrLower(s) == [i \in DOMAIN s |-> LowerChar(s[i])]

\* s.startswith(p)
StartsWith(s, p) == Len(p) <= Len(s) /\ SubSeq(s, 1, Len(p)) = p

\* s.endswith(p)
EndsWith(s, p) == Len(p) <= Len(s) /\ SubSeq(s, Len(s) - Len(p) + 1, Len(s)) = p

\* the Python test `p in s` on strings
Contains(s, p) ==
    \E i \in 1..(Len(s) - Len(p) + 1) : SubSeq(s, i, i + Len(p) - 1) = p

(***************************************************************************)
(* Navigation controller: Browser.go_to                                    *)
(***************************************************************************)
VARIABLES
    pc,       \* position of the running go_to call
    url,      \* the argument of the running (or last) go_to call
    doc,      \* the document the driver currently shows (the page handle)
    elapsed,  \* time units spent in the running wait.until
    lastObs,  \* what the last poll of wait.until read from the page
    events,   \* what the running call did to the page, in order
    ret,      \* how the last call ended: "none", "true", "false", "raised"
    exc,      \* the exception raised inside the call's try block
    prev      \* url, ret and exc of the call before the running one, and the
              \* document that call left

navVars == <<pc, url, doc, elapsed, lastObs, events, ret, exc, prev>>

\* The methods that only compute (is_sentence, get_text, clean_url,
\* is_link_valid) are applied to an argument drawn at the start.
VARIABLES
    op,       \* the method applied and whether it has returned
    arg,      \* its argument (for get_text: the page the driver shows)
    res       \* what it returned

callVars == <<op, arg, res>>

\* The form controls (inputs and buttons) of the document the driver shows.
VARIABLES dom

vars == <<navVars, callVars, dom>>

\* WebDriverWait(self.driver, timeout=30)
LoadTimeout == 30

\* poll at which the page of the URL "u_clears" leaves its challenge screen
ClearAt == 3

Urls == {"u_stuck", "u_fast", "u_clears", "u_wild"}

Docs == Urls \cup {"google", "error"}

ReadyStates == {"loading", "interactive", "complete"}

SrcClean == <<"<", "p", ">", "H", "e", "l", "l", "o", "<", "/", "p", ">">>

SrcVerifying == <<"V", "e", "r", "i", "f", "y", "i", "n", "g", ".", ".", ".">>

SrcChecking ==
    <<"C", "h", "e", "c", "k", "i", "n", "g", " ", "Y", "o", "u", "r", " ",
      "B", "r", "o", "w", "s", "e", "r">>

SrcCaptcha == <<"<", "C", "A", "P", "T", "C", "H", "A", ">">>

SrcLowerCaptcha == <<"a", " ", "c", "a", "p", "t", "c", "h", "a">>

SrcVerify == <<"v", "e", "r", "i", "f", "y">>

PageSources ==
    {SrcClean, SrcVerifying, SrcChecking, SrcCaptcha, SrcLowerCaptcha, SrcVerify}

Obs(r, s) == [ready |-> r, source |-> s]

NoObs == Obs("none", <<>>)

\* What document d may show to a poll made after t time units: the values of
\* document.readyState and driver.page_source.
PageObs(d, t) ==
    CASE d = "u_stuck" -> {Obs("complete", SrcVerifying)}
      [] d = "u_clears" ->
            IF t < ClearAt
            THEN {Obs("loading", SrcClean), Obs("complete", SrcChecking)}
            ELSE {Obs("complete", SrcClean)}
      [] d = "u_wild" -> {Obs(r, s) : r \in ReadyStates, s \in PageSources}
      [] OTHER -> {Obs("complete", SrcClean)}

\* the keyword list of the wait condition
Keywords ==
    { <<"c", "h", "e", "c", "k", "i", "n", "g", " ", "y", "o", "u", "r", " ",
        "b", "r", "o", "w", "s", "e", "r">>,
      <<"v", "e", "r", "i", "f", "y", "i", "n", "g">>,
      <<"c", "a", "p", "t", "c", "h", "a">> }

\* WaitCondition with a fault: `or` in place of `and`
WaitConditionOr(o) ==
    \/ o.ready = "complete"
    \/ ~(\E k \in Keywords : Contains(StrLower(o.source), k))

\* the lambda given to wait.until
WaitCondition(o) ==
    /\ o.ready = "complete"
    /\ ~(\E k \in Keywords : Contains(StrLower(o.source), k))

\* Python's exception classes: the classes e is an instance of
Bases(e) ==
    CASE e = "TimeoutException" ->
            {"TimeoutException", "WebDriverException", "Exception", "BaseException"}
      [] e = "JavascriptException" ->
            {"JavascriptException", "WebDriverException", "Exception", "BaseException"}
      [] e = "WebDriverException" -> {"WebDriverException", "Exception", "BaseException"}
      [] e = "OSError" -> {"OSError", "Exception", "BaseException"}
      [] e = "RecursionError" ->
            {"RecursionError", "RuntimeError", "Exception", "BaseException"}
      [] e = "TypeError" -> {"TypeError", "Exception", "BaseException"}
      [] e = "NameError" -> {"NameError", "Exception", "BaseException"}
      [] e = "AttributeError" -> {"AttributeError", "Exception", "BaseException"}
      [] e = "Exception" -> {"Exception", "BaseException"}
      [] OTHER -> {e, "BaseException"}

IsInstance(e, c) == c \in Bases(e)

\* what a call to the driver can raise
DriverFailures == {"WebDriverException", "Exception", "KeyboardInterrupt"}

NoExc == [type |-> "none", at |-> "none"]

\* GoToExcept with a fault: the last handler swallows the exception
GoToExceptSwallow(e) ==
    IF IsInstance(e, "TimeoutException") THEN "false"
    ELSE IF IsInstance(e, "WebDriverException") THEN "false"
    ELSE IF IsInstance(e, "Exception") THEN "false"
    ELSE "raised"

\* the except clauses of go_to, in order; an exception no clause catches
\* propagates
GoToExcept(e) ==
    IF IsInstance(e, "TimeoutException") THEN "false"
    ELSE IF IsInstance(e, "WebDriverException") THEN "false"
    ELSE IF IsInstance(e, "Exception") THEN "raised"
    ELSE "raised"

\* load_js: the script file read from the scripts folder
LoadJs(file) ==
    CASE file = "present" -> "ok"
      [] file = "missing" -> "Exception"
      [] OTHER -> "OSError"

ScriptFiles == {"present", "missing", "unreadable"}

\* the try block is left by exception e raised at step `at`
GoToRaise(e, at) ==
    /\ pc' = "done"
    /\ exc' = [type |-> e, at |-> at]
    /\ ret' = GoToExcept(e)

\* go_to(url) is called
GoToCall(u) ==
    /\ pc \in {"idle", "done"}
    /\ pc' = "handles"
    /\ url' = u
    /\ elapsed' = 0
    /\ lastObs' = NoObs
    /\ events' = <<>>
    /\ ret' = "none"
    /\ exc' = NoExc
    /\ prev' = IF pc = "done"
               THEN [url |-> url, ret |-> ret, exc |-> exc, doc |-> doc]
               ELSE prev
    /\ UNCHANGED doc
    /\ UNCHANGED <<callVars, dom>>

\* initial_handles = self.driver.window_handles
GoToHandles ==
    /\ pc = "handles"
    /\ \E o \in {"ok"} \cup DriverFailures :
          IF o = "ok"
          THEN pc' = "get" /\ UNCHANGED <<exc, ret>>
          ELSE GoToRaise(o, "handles")
    /\ UNCHANGED <<url, doc, elapsed, lastObs, events, prev>>
    /\ UNCHANGED <<callVars, dom>>

\* GoToGet with a fault: a call that follows a failed call does not issue the
\* load
GoToGetSkipped ==
    /\ pc = "get"
    /\ pc' = "wait"
    /\ doc' = IF prev.ret = "false" THEN doc ELSE url
    /\ events' = Append(events, "load")
    /\ UNCHANGED <<url, elapsed, lastObs, ret, exc, prev>>
    /\ UNCHANGED <<callVars, dom>>

\* self.driver.get(url)
GoToGet ==
    /\ pc = "get"
    /\ \E o \in {"ok", "TimeoutException"} \cup DriverFailures :
          IF o = "ok"
          THEN /\ doc' = url
               /\ events' = Append(events, "load")
               /\ pc' = "wait"
               /\ UNCHANGED <<exc, ret>>
          ELSE /\ doc' \in {doc, "error"}
               /\ GoToRaise(o, "get")
               /\ UNCHANGED events
    /\ UNCHANGED <<url, elapsed, lastObs, prev>>
    /\ UNCHANGED <<callVars, dom>>

\* one iteration of wait.until: the condition is evaluated on the page; when
\* it fails the wait sleeps, and gives up once the timeout has passed
GoToPoll ==
    /\ pc = "wait"
    /\ \E o \in {"ok"} \cup DriverFailures :
          IF o # "ok"
          THEN GoToRaise(o, "wait") /\ UNCHANGED <<elapsed, lastObs, events>>
          ELSE \E obs \in PageObs(doc, elapsed) :
                  /\ lastObs' = obs
                  /\ IF WaitCondition(obs)
                     THEN /\ pc' = "load_js"
                          /\ events' = Append(events, "wait_ok")
                          /\ UNCHANGED <<elapsed, exc, ret>>
                     ELSE /\ elapsed' = elapsed + 1
                          /\ UNCHANGED events
                          /\ IF elapsed + 1 > LoadTimeout
                             THEN GoToRaise("TimeoutException", "wait")
                             ELSE pc' = "wait" /\ UNCHANGED <<exc, ret>>
    /\ UNCHANGED <<url, doc, prev>>
    /\ UNCHANGED <<callVars, dom>>

\* apply_web_safety: script = self.load_js("inject_safety_script.js")
GoToLoadJs ==
    /\ pc = "load_js"
    /\ \E f \in ScriptFiles :
          IF LoadJs(f) = "ok"
          THEN pc' = "inject" /\ UNCHANGED <<exc, ret>>
          ELSE GoToRaise(LoadJs(f), "load_js")
    /\ UNCHANGED <<url, doc, elapsed, lastObs, events, prev>>
    /\ UNCHANGED <<callVars, dom>>

\* GoToInject with a fault: the safety script is run twice
GoToInjectTwice ==
    /\ pc = "inject"
    /\ events' = events \o <<"script", "script">>
    /\ pc' = "done"
    /\ ret' = "true"
    /\ UNCHANGED <<url, doc, elapsed, lastObs, exc, prev>>
    /\ UNCHANGED <<callVars, dom>>

\* apply_web_safety: self.driver.execute_script(script); then go_to logs and
\* returns True
GoToInject ==
    /\ pc = "inject"
    /\ \E o \in {"ok", "JavascriptException"} \cup DriverFailures :
          IF o = "ok"
          THEN /\ events' = Append(events, "script")
               /\ pc' = "done"
               /\ ret' = "true"
               /\ UNCHANGED exc
          ELSE GoToRaise(o, "inject") /\ UNCHANGED events
    /\ UNCHANGED <<url, doc, elapsed, lastObs, prev>>
    /\ UNCHANGED <<callVars, dom>>

\* Browser.__init__ has loaded https://www.google.com
NavInit ==
    /\ pc = "idle"
    /\ url = "none"
    /\ doc = "google"
    /\ elapsed = 0
    /\ lastObs = NoObs
    /\ events = <<>>
    /\ ret = "none"
    /\ exc = NoExc
    /\ prev = [url |-> "none", ret |-> "none", exc |-> NoExc, doc |-> "google"]

NoRes == [kind |-> "none"]

\* a document without form controls
EmptyDom == [fields |-> <<>>, buttons |-> <<>>]

Init ==
    /\ NavInit
    /\ dom = EmptyDom
    /\ op = "idle"
    /\ arg = <<>>
    /\ res = NoRes

Next ==
    \/ \E u \in Urls : GoToCall(u)
    \/ GoToHandles
    \/ GoToGet
    \/ GoToPoll
    \/ GoToLoadJs
    \/ GoToInject

(***************************************************************************)
(* Properties of go_to                                                     *)
(***************************************************************************)
\* two characters that are equal up to the case of a letter
SameLetter(a, b) ==
    \/ a = b
    \/ \E i \in DOMAIN UpperChars : {a, b} = {UpperChars[i], LowerChars[i]}

\* marker m occurs in s at position i, whatever the case of the letters
OccursAt(s, m, i) ==
    /\ i + Len(m) - 1 <= Len(s)
    /\ \A j \in 1..Len(m) : SameLetter(s[i + j - 1], m[j])

ShowsChallenge(s) == \E m \in Keywords : \E i \in 1..Len(s) : OccursAt(s, m, i)

\* C1: go_to returns True only if a poll made within the 30 time units of the
\* wait read readyState "complete" together with a page source that holds none
\* of the challenge markers in any letter case; the wait ends at the first such
\* poll, so it is the last poll of the call.
C1_TrueOnlyAfterGoodPoll ==
    (pc = "done" /\ ret = "true") =>
        /\ elapsed <= LoadTimeout
        /\ lastObs.ready = "complete"
        /\ ~ShowsChallenge(lastObs.source)

\* a call that returned True after polls that saw a challenge or a loading page
C1_Witness ==
    /\ pc = "done"
    /\ ret = "true"
    /\ url = "u_wild"
    /\ elapsed > 0

\* C2: a timeout of the wait makes go_to return False, a failure of the driver
\* (WebDriverException or a subclass) makes it return False, and every other
\* exception, those of the safety-injection step included, reaches the caller.
C2_FailureClassification ==
    pc = "done" =>
        /\ (exc.type = "TimeoutException" => ret = "false")
        /\ (exc.type \in {"WebDriverException", "JavascriptException"} => ret = "false")
        /\ (exc.type \in {"Exception", "OSError", "KeyboardInterrupt"} => ret = "raised")
        /\ (exc.type = "none" => ret = "true")

\* the safety-injection step could not read its script and the caller got the
\* exception
C2_Witness ==
    /\ pc = "done"
    /\ exc.at = "load_js"
    /\ exc.type = "Exception"
    /\ ret = "raised"

\* URLs whose page is complete and free of challenges within the timeout
ClearingUrls == {"u_fast", "u_clears"}

\* the call met a failure of the driver or of the script file, not of the page
EnvFailure(e) ==
    \/ e.type \notin {"none", "TimeoutException"}
    \/ e.at \notin {"none", "wait"}

TimedOut(e) == e = [type |-> "TimeoutException", at |-> "wait"]

\* C3: when the previous go_to timed out on a page that stayed on a challenge
\* screen and returned False, a go_to to another URL whose page becomes
\* complete and challenge-free returns True and shows that URL's document,
\* unless the driver or the script file fails during this call.
C3_UsableAfterTimeout ==
    ( /\ pc = "done"
      /\ prev.ret = "false"
      /\ TimedOut(prev.exc)
      /\ url \in ClearingUrls
      /\ url # prev.url
      /\ ~EnvFailure(exc) ) => (ret = "true" /\ doc = url)

\* a timed-out call on the stuck page followed by a successful call
C3_Witness ==
    /\ pc = "done"
    /\ prev.url = "u_stuck"
    /\ prev.ret = "false"
    /\ TimedOut(prev.exc)
    /\ url = "u_clears"
    /\ ret = "true"

\* C4: a go_to call that returns True has run the safety script exactly once,
\* after the wait condition held and before returning; a call whose wait timed
\* out has not run it.
C4_SafetyInjectionOrder ==
    pc = "done" =>
        /\ (ret = "true" => events = <<"load", "wait_ok", "script">>)
        /\ (TimedOut(exc) => \A i \in DOMAIN events : events[i] # "script")

\* a call that returned True after the script ran
C4_Witness ==
    /\ pc = "done"
    /\ ret = "true"
    /\ Len(events) = 3
    /\ events[3] = "script"

\* C18: a user abort (KeyboardInterrupt) that arrives while go_to runs is
\* caught by the call and comes back as a result value that tells the caller
\* the user interrupted, never as a raised exception.
C18_InterruptSurfaced ==
    (pc = "done" /\ exc.type = "KeyboardInterrupt") => ret = "interrupted"

\* C20: after go_to(url) returns True the current document is the one loaded
\* for url, and after it returns False the current document is the one that
\* was current before the call.
C20_RepointedOnSuccessOnly ==
    pc = "done" =>
        /\ (ret = "true" => doc = url)
        /\ (ret = "false" => doc = prev.doc)

\* C20 as amended: the load re-points the page handle, whatever go_to returns
\* afterwards. After True, and after the False of a timed-out wait, the
\* current document is the one loaded for url; after a failure that came
\* before the load was issued it is the one current before the call.
C20_RepointedByLoad ==
    pc = "done" =>
        /\ (ret = "true" => doc = url)
        /\ (TimedOut(exc) => (ret = "false" /\ doc = url))
        /\ (exc.at = "handles" => doc = prev.doc)

\* a call that timed out and left the driver on the page of its own URL, not
\* on the document shown before the call
C20_Witness ==
    /\ pc = "done"
    /\ ret = "false"
    /\ TimedOut(exc)
    /\ doc = url
    /\ prev.doc # url


Spec == Init /\ [][Next]_vars

(***************************************************************************)
(* Content extractor: Browser.is_sentence                                  *)
(***************************************************************************)
\* str.strip(): the text without its leading and trailing white space
Strip(s) ==
    IF \A i \in DOMAIN s : IsSpace(s[i])
    THEN <<>>
    ELSE LET first == CHOOSE i \in DOMAIN s :
                          ~IsSpace(s[i]) /\ \A j \in 1..(i - 1) : IsSpace(s[j])
             last == CHOOSE i \in DOMAIN s :
                          ~IsSpace(s[i]) /\ \A j \in (i + 1)..Len(s) : IsSpace(s[j])
         IN  SubSeq(s, first, last)

\* re.findall(r'\w+', text, re.UNICODE): the positions where a maximal run of
\* word characters starts, one per word found
WordStarts(s) ==
    {i \in DOMAIN s : IsWordChar(s[i]) /\ (i = 1 \/ ~IsWordChar(s[i - 1]))}

\* The sentence-terminal marks of has_punctuation. The marks outside ASCII are
\* single characters, written here by their code points.
SentenceEnds ==
    {".", "U+FF0C", ",", "!", "?", "U+3002", "U+FF01", "U+FF1F", "U+0964", "U+06D4"}

\* IsSentence with a fault: six words are asked for
IsSentenceStrict(t) ==
    LET text == Strip(t)
        word_count == Cardinality(WordStarts(text))
        has_punctuation == \E p \in SentenceEnds : EndsWith(text, <<p>>)
        is_long_enough == word_count > 5
    IN  IF \E i \in DOMAIN text : IsDigit(text[i])
        THEN TRUE
        ELSE word_count > 5 /\ (has_punctuation \/ is_long_enough)

\* is_sentence(text)
IsSentence(t) ==
    LET text == Strip(t)
        word_count == Cardinality(WordStarts(text))
        has_punctuation == \E p \in SentenceEnds : EndsWith(text, <<p>>)
        is_long_enough == word_count > 4
    IN  IF \E i \in DOMAIN text : IsDigit(text[i])
        THEN TRUE
        ELSE word_count >= 5 /\ (has_punctuation \/ is_long_enough)

\* the most words a generated text holds
MaxWords == 6

ExHello ==
    <<"H", "e", "l", "l", "o", " ", "w", "o", "r", "l", "d", " ", "h", "o", "w",
      " ", "a", "r", "e", " ", "y", "o", "u", " ", "t", "o", "d", "a", "y">>

ExOK == <<"O", "K">>

ExPrice == <<"P", "r", "i", "c", "e", ":", " ", "4", "2">>

ExDone == <<"D", "o", "n", "e", ".">>

ExCompounds ==
    <<"w", "e", "l", "l", "-", "k", "n", "o", "w", "n", " ", "s", "t", "a", "t",
      "e", "-", "o", "f", "-", "t", "h", "e", "-", "a", "r", "t">>

TextSeparators == {<<" ">>, <<"-">>, <<".">>}

TextEndings == {<<>>, <<".">>, <<"U+3002">>, <<" ">>}

\* the first k of the words of a text: word d is the number 7, the others are
\* "ab", and seps[i] stands between word i and word i + 1
RECURSIVE TextOf(_, _, _)
TextOf(k, seps, d) ==
    IF k = 0
    THEN <<>>
    ELSE TextOf(k - 1, seps, d)
            \o (IF k > 1 THEN seps[k - 1] ELSE <<>>)
            \o (IF k = d THEN <<"7">> ELSE <<"a", "b">>)

\* the texts is_sentence is applied to: the examples and the texts of at most
\* `most` words
SentenceInputs(most) ==
    {ExHello, ExOK, ExPrice, ExDone, ExCompounds}
    \cup UNION { { TextOf(n, seps, d) \o e :
                     seps \in [1..(n - 1) -> TextSeparators],
                     d \in 0..n, e \in TextEndings } : n \in 0..most }

SentenceInit ==
    /\ NavInit
    /\ dom = EmptyDom
    /\ op = "is_sentence"
    /\ arg \in SentenceInputs(MaxWords)
    /\ res = NoRes

\* self.is_sentence(arg) is called and returns
IsSentenceCall ==
    /\ op = "is_sentence"
    /\ op' = "is_sentence_done"
    /\ res' = [kind |-> "value", value |-> IsSentence(arg)]
    /\ UNCHANGED <<arg, navVars, dom>>

SentenceNext == IsSentenceCall

SpecSentence == SentenceInit /\ [][SentenceNext]_vars

(***************************************************************************)
(* Content extractor: Browser.get_text                                     *)
(***************************************************************************)
\* result[:8192]
MaxChars == 8192

StartTag == <<"[", "S", "t", "a", "r", "t", " ", "o", "f", " ", "p", "a", "g", "e", "]">>

EndTag == <<"[", "E", "n", "d", " ", "o", "f", " ", "p", "a", "g", "e", "]">>

\* "[Start of page]\n\n"
StartMarker == StartTag \o <<"\n", "\n">>

\* "\n\n[End of page]"
EndMarker == <<"\n", "\n">> \o EndTag

\* Python's str(None)
StrNone == <<"N", "o", "n", "e">>

\* str.splitlines() of the part of s from position `from` on; the Markdown of
\* a page breaks its lines with "\n"
RECURSIVE SplitLinesFrom(_, _)
SplitLinesFrom(s, from) ==
    IF from > Len(s)
    THEN <<>>
    ELSE IF \E i \in from..Len(s) : s[i] = "\n"
         THEN LET b == CHOOSE i \in from..Len(s) :
                           s[i] = "\n" /\ \A j \in from..(i - 1) : s[j] # "\n"
              IN  <<SubSeq(s, from, b - 1)>> \o SplitLinesFrom(s, b + 1)
         ELSE <<SubSeq(s, from, Len(s))>>

SplitLines(s) == SplitLinesFrom(s, 1)

\* ' '.join(s.split()): the words of s, one space between them
JoinSplit(s) ==
    LET t == Strip(s)
        kept == SelectSeq([i \in DOMAIN t |-> i],
                          LAMBDA i : ~IsSpace(t[i]) \/ ~IsSpace(t[i - 1]))
    IN  [k \in DOMAIN kept |-> IF IsSpace(t[kept[k]]) THEN " " ELSE t[kept[k]]]

\* sep.join(lines)
RECURSIVE Join(_, _)
Join(lines, sep) ==
    IF lines = <<>>
    THEN <<>>
    ELSE IF Len(lines) = 1
         THEN lines[1]
         ELSE lines[1] \o sep \o Join(Tail(lines), sep)

\* The regular expression !\[(.*?)\]\(.*?\) tried at position i of s: the
\* positions <<j, k>> of the "]" that ends group 1 and of the final ")", or
\* <<0, 0>> when there is no match at i. A "." matches no "\n", and both groups
\* are as short as possible.
ImageMatchAt(s, i) ==
    LET n == Len(s)
        Closes(j) == s[j] = "]" /\ j < n /\ s[j + 1] = "("
        Stops(j) == s[j] = "\n" \/ Closes(j)
        Ends(k) == s[k] = "\n" \/ s[k] = ")"
    IN  IF ~(i < n /\ s[i] = "!" /\ s[i + 1] = "[")
        THEN <<0, 0>>
        ELSE IF ~(\E j \in (i + 2)..n : Stops(j))
        THEN <<0, 0>>
        ELSE LET j == CHOOSE j \in (i + 2)..n :
                          Stops(j) /\ \A h \in (i + 2)..(j - 1) : ~Stops(h)
             IN  IF ~Closes(j) \/ ~(\E k \in (j + 2)..n : Ends(k))
                 THEN <<0, 0>>
                 ELSE LET k == CHOOSE k \in (j + 2)..n :
                                   Ends(k) /\ \A h \in (j + 2)..(k - 1) : ~Ends(h)
                      IN  IF s[k] = ")" THEN <<j, k>> ELSE <<0, 0>>

\* re.sub(r'!\[(.*?)\]\(.*?\)', r'[IMAGE: \1]', s) on the part of s from
\* position `from` on: the leftmost match is replaced and the scan goes on
\* behind it
RECURSIVE ImageSubFrom(_, _)
ImageSubFrom(s, from) ==
    LET n == Len(s)
        Matches(i) == ImageMatchAt(s, i) # <<0, 0>>
    IN  IF ~(\E i \in from..n : Matches(i))
        THEN SubSeq(s, from, n)
        ELSE LET i == CHOOSE i \in from..n :
                          Matches(i) /\ \A h \in from..(i - 1) : ~Matches(h)
                 m == ImageMatchAt(s, i)
             IN  SubSeq(s, from, i - 1)
                    \o <<"[", "I", "M", "A", "G", "E", ":", " ">>
                    \o SubSeq(s, i + 2, m[1] - 1)
                    \o <<"]">>
                    \o ImageSubFrom(s, m[2] + 1)

ImageSub(s) == ImageSubFrom(s, 1)

\* Truncate with a fault: nothing is cut
TruncateOff(s) == s

\* result[:8192]
Truncate(s) == SubSeq(s, 1, IF Len(s) < MaxChars THEN Len(s) ELSE MaxChars)

\* The Markdown text markdownify makes of str(soup.body): a page is given by
\* the Markdown of its body, and a page without a body has soup.body = None.
BodyMarkdown(page) == IF page.body THEN page.md ELSE StrNone

\* KeptLines with a fault: the white space inside a line is left as it is
KeptLinesUncollapsed(markdown_text) ==
    LET raw == SplitLines(markdown_text)
        stripped == [i \in DOMAIN raw |-> Strip(raw[i])]
    IN  SelectSeq(stripped, LAMBDA l : l # <<>> /\ IsSentence(l))

\* the lines get_text keeps, cleaned
KeptLines(markdown_text) ==
    LET raw == SplitLines(markdown_text)
        stripped == [i \in DOMAIN raw |-> Strip(raw[i])]
        kept == SelectSeq(stripped, LAMBDA l : l # <<>> /\ IsSentence(l))
    IN  [i \in DOMAIN kept |-> JoinSplit(kept[i])]

\* the text of get_text before result[:8192]
FullText(page) ==
    ImageSub(StartMarker
                \o Join(KeptLines(BodyMarkdown(page)), <<"\n", "\n">>)
                \o EndMarker)

\* the except clause of get_text; an exception it does not catch propagates
GetTextExcept(e) == IF IsInstance(e, "Exception") THEN "null" ELSE "raised"

\* what reading and converting the page can raise
ExtractFailures == {"WebDriverException", "RecursionError", "KeyboardInterrupt"}

\* the most lines the Markdown of a generated page holds
MaxLines == 2

\* a line that fills the text up to the last character allowed
FillLine ==
    [i \in 1..(MaxChars - Len(StartMarker) - Len(EndMarker)) |->
        IF i = 1 THEN "7" ELSE "a"]

\* the lines the Markdown of a generated page is made of
PageLines ==
    { <<"O", "K">>,
      <<"a", " ", "b", " ", "c", " ", "d", " ", "e">>,
      <<" ", "O", "n", "e", " ", " ", "t", "w", "o", " ", "3", " ">>,
      <<"!", "[", "x", "]", "(", "y", ")", " ", "7">>,
      <<"7", " ", "!", "[", "x", "]", "(">>,
      <<"]", "(", "z", ")", " ", "7">>,
      FillLine,
      FillLine \o <<"a">> }

\* the pages the driver may show when get_text is called: one without a body
\* and those whose Markdown has at most `most` lines
TextPages(most) ==
    {[body |-> FALSE, md |-> <<>>]}
    \cup UNION { { [body |-> TRUE, md |-> Join(ls, <<"\n">>)] :
                     ls \in [1..n -> PageLines] } : n \in 0..most }

TextInit ==
    /\ NavInit
    /\ dom = EmptyDom
    /\ op = "get_text"
    /\ arg \in TextPages(MaxLines)
    /\ res = NoRes

\* self.get_text() is called on the page and returns or raises
GetTextCall ==
    /\ op = "get_text"
    /\ op' = "get_text_done"
    /\ \E f \in {"none"} \cup ExtractFailures :
          IF f = "none"
          THEN res' = [kind |-> "value", exc |-> f,
                       value |-> Truncate(FullText(arg)),
                       full |-> FullText(arg)]
          ELSE res' = [kind |-> GetTextExcept(f), exc |-> f]
    /\ UNCHANGED <<arg, navVars, dom>>

TextNext == GetTextCall

SpecText == TextInit /\ [][TextNext]_vars

(***************************************************************************)
(* Properties of get_text                                                  *)
(***************************************************************************)
\* C5: a text returned by get_text has at most 8192 characters, begins with
\* "[Start of page]", and ends with "[End of page]" when the text before the
\* cut has at most 8192 characters.
C5_Envelope ==
    (op = "get_text_done" /\ res.kind = "value") =>
        /\ Len(res.value) <= MaxChars
        /\ StartsWith(res.value, StartTag)
        /\ (Len(res.full) <= MaxChars => EndsWith(res.value, EndTag))

\* a text one character too long, returned without the end of its closing
\* marker
C5_Witness ==
    /\ op = "get_text_done"
    /\ res.kind = "value"
    /\ Len(res.full) = MaxChars + 1
    /\ Len(res.value) = MaxChars
    /\ ~EndsWith(res.value, EndTag)

\* C6: get_text raises nothing and returns None whenever the extraction fails:
\* when reading or converting the page raises an exception, and when the page
\* has no body element.
C6_NullOnFailure ==
    op = "get_text_done" =>
        ( (~arg.body \/ IsInstance(res.exc, "Exception")) => res.kind = "null" )

(***************************************************************************)
(* Properties of is_sentence                                               *)
(***************************************************************************)
HasDigit(s) == Range(s) \cap DigitChars # {}

\* the last character of s that is not white space is a sentence-terminal mark
EndsWithMark(s) ==
    \E i \in DOMAIN s :
        /\ s[i] \in SentenceEnds
        /\ \A j \in (i + 1)..Len(s) : IsSpace(s[j])

\* a character of a token: of a word (a maximal run of word characters) or of
\* a white-space-delimited token
InToken(c, kind) == IF kind = "word" THEN IsWordChar(c) ELSE ~IsSpace(c)

\* the number of tokens of s that start at position i or later; `inside` says
\* that position i - 1 is in a token
RECURSIVE TokensFrom(_, _, _, _)
TokensFrom(s, i, inside, kind) ==
    IF i > Len(s)
    THEN 0
    ELSE IF InToken(s[i], kind)
         THEN (IF inside THEN 0 ELSE 1) + TokensFrom(s, i + 1, TRUE, kind)
         ELSE TokensFrom(s, i + 1, FALSE, kind)

\* white-space-delimited tokens
SpaceTokens(s) == TokensFrom(s, 1, FALSE, "space")

\* maximal runs of word characters
WordRuns(s) == TokensFrom(s, 1, FALSE, "word")

\* C7 as stated: is_sentence holds exactly of the texts with a digit, or with
\* at least 5 white-space-delimited tokens, or with more than 4 of them and a
\* final sentence-terminal mark.
C7_SpaceTokens ==
    op = "is_sentence_done" =>
        res.value = ( \/ HasDigit(arg)
                      \/ SpaceTokens(arg) >= 5
                      \/ (SpaceTokens(arg) > 4 /\ EndsWithMark(arg)) )

\* C7, amended: is_sentence holds exactly of the texts with a digit, or with at
\* least 5 words, or with more than 4 words and a final sentence-terminal mark,
\* a word being a maximal run of word characters (letter, digit, underscore);
\* so it holds of "Hello world how are you today" and of "Price: 42", and
\* fails of "OK" and of "Done.".
C7_WordRuns ==
    op = "is_sentence_done" =>
        /\ res.value = ( \/ HasDigit(arg)
                         \/ WordRuns(arg) >= 5
                         \/ (WordRuns(arg) > 4 /\ EndsWithMark(arg)) )
        /\ (arg \in {ExHello, ExPrice} => res.value)
        /\ (arg \in {ExOK, ExDone} => ~res.value)

\* two hyphenated compounds, six words in all, are a sentence
C7_Witness ==
    /\ op = "is_sentence_done"
    /\ arg = ExCompounds
    /\ SpaceTokens(arg) = 2
    /\ res.value

(***************************************************************************)
(* Properties of get_text: the layout of the text                          *)
(***************************************************************************)
\* a line of the Markdown that is not blank and is a sentence
Qualifies(l) == Strip(l) # <<>> /\ IsSentence(l)

NonSpace(s) == SelectSeq(s, LAMBDA c : ~IsSpace(c))

\* the positions of s at which a run of characters other than white space
\* starts
TokenStarts(s) == {i \in DOMAIN s : ~IsSpace(s[i]) /\ (i = 1 \/ IsSpace(s[i - 1]))}

\* r is l with every run of white space inside it made one space, and without
\* the white space around it
IsCollapsed(r, l) ==
    /\ NonSpace(r) = NonSpace(l)
    /\ Cardinality(TokenStarts(r)) = Cardinality(TokenStarts(l))
    /\ \A i \in DOMAIN r :
          IsSpace(r[i]) => (r[i] = " " /\ 1 < i /\ i < Len(r) /\ ~IsSpace(r[i + 1]))

\* the text with the given lines between its markers, a blank line between
\* two lines
Layout(lines) == StartMarker \o Join(lines, <<"\n", "\n">>) \o EndMarker

\* "[Start of page]\n\nOne two 3\n\n[IMAGE: x] 7\n\n[End of page]"
TwoLineText ==
    StartTag
    \o <<"\n", "\n", "O", "n", "e", " ", "t", "w", "o", " ", "3", "\n", "\n">>
    \o <<"[", "I", "M", "A", "G", "E", ":", " ", "x", "]", " ", "7", "\n", "\n">>
    \o EndTag

\* C22: a text that get_text returns uncut is the start marker, the lines of
\* the page's Markdown that are not blank and are sentences, all of them and
\* in their order, each with its runs of white space made one space and its
\* image tokens ![alt](src) replaced by [IMAGE: alt], a blank line between two
\* of them, and the end marker; no other line is in it.
C22_ExactLayout ==
    (op = "get_text_done" /\ res.kind = "value" /\ Len(res.full) <= MaxChars) =>
        LET q == SelectSeq(SplitLines(BodyMarkdown(arg)), Qualifies)
            cleaned == [k \in DOMAIN q |-> JoinSplit(q[k])]
        IN  /\ \A k \in DOMAIN q : IsCollapsed(cleaned[k], q[k])
            /\ res.value = Layout([k \in DOMAIN q |-> ImageSub(cleaned[k])])
            /\ Len(SplitLines(res.value)) = 1 + 2 * Len(q) + (IF q = <<>> THEN 4 ELSE 2)

\* a line with white space around and inside it and a line with an image
\* token came out as "One two 3" and "[IMAGE: x] 7"
C22_Witness ==
    /\ op = "get_text_done"
    /\ res.kind = "value"
    /\ arg.body
    /\ arg.md = <<" ", "O", "n", "e", " ", " ", "t", "w", "o", " ", "3", " ", "\n",
                  "!", "[", "x", "]", "(", "y", ")", " ", "7">>
    /\ res.value = TwoLineText

(***************************************************************************)
(* URL sanitizer: Browser.clean_url                                        *)
(***************************************************************************)
\* s.split(c): the pieces of s between the occurrences of character c
RECURSIVE Split(_, _)
Split(s, c) ==
    IF \E i \in DOMAIN s : s[i] = c
    THEN LET b == CHOOSE i \in DOMAIN s : s[i] = c /\ \A j \in 1..(i - 1) : s[j] # c
         IN  <<SubSeq(s, 1, b - 1)>> \o Split(SubSeq(s, b + 1, Len(s)), c)
    ELSE <<s>>

\* s.split(c, 1): s cut at the first occurrence of c
SplitOnce(s, c) ==
    IF \E i \in DOMAIN s : s[i] = c
    THEN LET b == CHOOSE i \in DOMAIN s : s[i] = c /\ \A j \in 1..(i - 1) : s[j] # c
         IN  <<SubSeq(s, 1, b - 1), SubSeq(s, b + 1, Len(s))>>
    ELSE <<s>>

KeepPrefixes == { <<"_", "s", "k", "w", "=">>, <<"q", "=">>, <<"s", "=">> }

StopPrefixes ==
    { <<"_">>, <<"h", "a", "s", "h", "=">>, <<"i", "t", "m", "m", "e", "t", "a", "=">> }

\* the first test of the loop over the parameters
IsEssential(param) == \E k \in KeepPrefixes : StartsWith(param, k)

\* the second test of the loop, made when the first fails
IsBreak(param) == \E k \in StopPrefixes : StartsWith(param, k)

\* EssentialParams with a fault: the loop goes on where it should break
RECURSIVE EssentialParamsNoBreak(_, _)
EssentialParamsNoBreak(params, i) ==
    IF i > Len(params)
    THEN <<>>
    ELSE IF IsEssential(params[i])
         THEN <<params[i]>> \o EssentialParamsNoBreak(params, i + 1)
         ELSE EssentialParamsNoBreak(params, i + 1)

\* the loop over query.split('&'), from parameter i on
RECURSIVE EssentialParams(_, _)
EssentialParams(params, i) ==
    IF i > Len(params)
    THEN <<>>
    ELSE IF IsEssential(params[i])
         THEN <<params[i]>> \o EssentialParams(params, i + 1)
         ELSE IF IsBreak(params[i])
              THEN <<>>
              ELSE EssentialParams(params, i + 1)

\* StripFragment with a fault: the URL is cut at its last '#'
StripLastFragment(u) ==
    IF \E i \in DOMAIN u : u[i] = "#"
    THEN LET b == CHOOSE i \in DOMAIN u :
                      u[i] = "#" /\ \A j \in (i + 1)..Len(u) : u[j] # "#"
         IN  SubSeq(u, 1, b - 1)
    ELSE u

\* url.split('#')[0]
StripFragment(u) == Split(u, "#")[1]

\* clean_url(url)
CleanUrl(u) ==
    LET clean == StripFragment(u)
        parts == SplitOnce(clean, "?")
        base_url == parts[1]
    IN  IF Len(parts) > 1
        THEN LET essential_params == EssentialParams(Split(parts[2], "&"), 1)
             IN  IF essential_params # <<>>
                 THEN base_url \o <<"?">> \o Join(essential_params, <<"&">>)
                 ELSE base_url
        ELSE base_url

\* the most pieces a generated URL is made of
MaxUrlPieces == 4

UrlPieces ==
    { <<"a">>, <<"#">>, <<"?">>, <<"&">>, <<"q", "=">>, <<"s", "=">>,
      <<"_", "s", "k", "w", "=">>, <<"_", "x">>, <<"h", "a", "s", "h", "=">>,
      <<"i", "t", "m", "m", "e", "t", "a", "=">> }

\* "https://e.com/i?_skw=tv&x=1&q=2&hash=item&s=3#top"
ExSearchUrl ==
    <<"h", "t", "t", "p", "s", ":", "/", "/", "e", ".", "c", "o", "m", "/", "i",
      "?", "_", "s", "k", "w", "=", "t", "v", "&", "x", "=", "1", "&", "q", "=",
      "2", "&", "h", "a", "s", "h", "=", "i", "t", "e", "m", "&", "s", "=", "3",
      "#", "t", "o", "p">>

\* the concatenation of a sequence of strings
Concat(pieces) == Join(pieces, <<>>)

\* the URLs clean_url is applied to: the example and the URLs made of at most
\* `most` pieces
UrlInputs(most) ==
    {ExSearchUrl}
    \cup UNION { { Concat(ps) : ps \in [1..n -> UrlPieces] } : n \in 0..most }

UrlInit ==
    /\ NavInit
    /\ dom = EmptyDom
    /\ op = "clean_url"
    /\ arg \in UrlInputs(MaxUrlPieces)
    /\ res = NoRes

\* self.clean_url(arg) is called and returns
CleanUrlCall ==
    /\ op = "clean_url"
    /\ op' = "clean_url_done"
    /\ res' = [kind |-> "value", value |-> CleanUrl(arg)]
    /\ UNCHANGED <<arg, navVars, dom>>

\* self.clean_url is called on the URL it returned
CleanUrlAgain ==
    /\ op = "clean_url_done"
    /\ op' = "clean_url_twice"
    /\ res' = [kind |-> "value", value |-> res.value, second |-> CleanUrl(res.value)]
    /\ UNCHANGED <<arg, navVars, dom>>

UrlNext ==
    \/ CleanUrlCall
    \/ CleanUrlAgain

SpecUrl == UrlInit /\ [][UrlNext]_vars

(***************************************************************************)
(* Properties of clean_url                                                 *)
(***************************************************************************)
\* C8: clean_url applied to a URL it returned returns that URL again.
C8_Idempotent == op = "clean_url_twice" => res.second = res.value

\* a URL that clean_url changed, cleaned a second time
C8_Witness ==
    /\ op = "clean_url_twice"
    /\ res.value # arg
    /\ \E i \in DOMAIN res.value : res.value[i] = "?"

\* the part of s before the first occurrence of character c
Before(s, c) ==
    LET hits == {i \in DOMAIN s : s[i] = c}
    IN  IF hits = {} THEN s
        ELSE SubSeq(s, 1, (CHOOSE i \in hits : \A j \in hits : i <= j) - 1)

\* the parameters of u: the pieces, between '&', of what stands between the
\* first '?' and the fragment; none when u has no '?' before its fragment
ParamsOf(u) ==
    LET c == Before(u, "#")
        b == Before(c, "?")
    IN  IF Len(b) = Len(c) THEN <<>> ELSE Split(SubSeq(c, Len(b) + 2, Len(c)), "&")

\* a parameter with the key _skw, q or s
Retained(param) ==
    \/ StartsWith(param, <<"_", "s", "k", "w", "=">>)
    \/ StartsWith(param, <<"q", "=">>)
    \/ StartsWith(param, <<"s", "=">>)

\* a parameter that ends the scan
Terminator(param) ==
    /\ ~Retained(param)
    /\ \/ StartsWith(param, <<"_">>)
       \/ StartsWith(param, <<"h", "a", "s", "h", "=">>)
       \/ StartsWith(param, <<"i", "t", "m", "m", "e", "t", "a", "=">>)

\* the positions of the parameters of u that are retained: those with a
\* retained key and no terminator before them
RetainedPositions(u) ==
    {i \in DOMAIN ParamsOf(u) :
        /\ Retained(ParamsOf(u)[i])
        /\ \A j \in 1..(i - 1) : ~Terminator(ParamsOf(u)[j])}

\* C9: clean_url(u) has no fragment and keeps the part of u before the first
\* '?'; its query holds exactly the retained parameters of u, in their order,
\* and there is no '?' when none is retained.
C9_RetainedParams ==
    op = "clean_url_done" =>
        LET out == res.value
            base == Before(Before(arg, "#"), "?")
            keep == RetainedPositions(arg)
        IN  /\ \A i \in DOMAIN out : out[i] # "#"
            /\ StartsWith(out, base)
            /\ (keep = {} => out = base)
            /\ (keep # {} =>
                  /\ Len(out) > Len(base)
                  /\ out[Len(base) + 1] = "?"
                  /\ LET got == Split(SubSeq(out, Len(base) + 2, Len(out)), "&")
                     IN  /\ Len(got) = Cardinality(keep)
                         /\ \A i \in keep :
                               got[Cardinality({j \in keep : j <= i})] = ParamsOf(arg)[i])

\* a URL with a retained parameter before a terminator and one after it
C9_Witness ==
    /\ op = "clean_url_done"
    /\ arg = ExSearchUrl
    /\ res.value =
          <<"h", "t", "t", "p", "s", ":", "/", "/", "e", ".", "c", "o", "m", "/",
            "i", "?", "_", "s", "k", "w", "=", "t", "v", "&", "q", "=", "2">>

(***************************************************************************)
(* URL sanitizer: Browser.is_link_valid                                    *)
(***************************************************************************)
\* len(url) > 64
MaxUrlLen == 64

\* the characters urlparse allows in a scheme
IsSchemeChar(c) == IsUpper(c) \/ IsLower(c) \/ IsDigit(c) \/ c \in {"+", "-", "."}

\* urllib.parse.urlparse(url), for a URL without ';': the scheme is what stands
\* before the first ':' when it starts with a letter and holds scheme
\* characters only; the netloc follows "//" and ends before the first of
\* '/', '?' and '#'; the path is what is left before the first '#' or '?'
UrlParse(u) ==
    LET colon == Len(Before(u, ":")) + 1
        has_scheme ==
            /\ colon <= Len(u)
            /\ colon > 1
            /\ (IsUpper(u[1]) \/ IsLower(u[1]))
            /\ \A i \in 1..(colon - 1) : IsSchemeChar(u[i])
        scheme == IF has_scheme THEN StrLower(SubSeq(u, 1, colon - 1)) ELSE <<>>
        rest == IF has_scheme THEN SubSeq(u, colon + 1, Len(u)) ELSE u
        has_netloc == StartsWith(rest, <<"/", "/">>)
        after == IF has_netloc THEN SubSeq(rest, 3, Len(rest)) ELSE rest
        netloc == IF has_netloc
                  THEN Before(Before(Before(after, "/"), "?"), "#")
                  ELSE <<>>
        tail == SubSeq(after, Len(netloc) + 1, Len(after))
    IN  [scheme |-> scheme,
         netloc |-> netloc,
         path |-> Before(Before(tail, "#"), "?")]

\* re.search(r'/\d+$', path)
SearchNumericTail(path) ==
    \E i \in DOMAIN path :
        /\ path[i] = "/"
        /\ i < Len(path)
        /\ \A j \in (i + 1)..Len(path) : IsDigit(path[j])

\* image_extensions + metadata_extensions
BlockedExtensions ==
    { <<".", "j", "p", "g">>, <<".", "j", "p", "e", "g">>, <<".", "p", "n", "g">>,
      <<".", "g", "i", "f">>, <<".", "b", "m", "p">>, <<".", "t", "i", "f", "f">>,
      <<".", "w", "e", "b", "p">>, <<".", "i", "c", "o">>, <<".", "x", "m", "l">>,
      <<".", "j", "s", "o", "n">>, <<".", "r", "s", "s">>, <<".", "a", "t", "o", "m">> }

\* IsLinkValid with a fault: the extensions are compared without url.lower()
IsLinkValidCaseSensitive(u) ==
    IF Len(u) > MaxUrlLen
    THEN FALSE
    ELSE LET parsed_url == UrlParse(u)
         IN  IF parsed_url.scheme = <<>> \/ parsed_url.netloc = <<>>
             THEN FALSE
             ELSE IF SearchNumericTail(parsed_url.path)
                  THEN FALSE
                  ELSE ~(\E ext \in BlockedExtensions : EndsWith(u, ext))

\* is_link_valid(url)
IsLinkValid(u) ==
    IF Len(u) > MaxUrlLen
    THEN FALSE
    ELSE LET parsed_url == UrlParse(u)
         IN  IF parsed_url.scheme = <<>> \/ parsed_url.netloc = <<>>
             THEN FALSE
             ELSE IF SearchNumericTail(parsed_url.path)
                  THEN FALSE
                  ELSE ~(\E ext \in BlockedExtensions : EndsWith(StrLower(u), ext))

\* a piece that brings "http://h" to the longest length allowed
LongPiece == [i \in 1..(MaxUrlLen - 8) |-> "w"]

LinkPieces ==
    { <<"h", "t", "t", "p", ":">>, <<"/", "/", "h">>, <<"/", "x">>, <<"/", "7">>,
      <<"7">>, <<".", "p", "n", "g">>, <<".", "J", "S", "O", "N">>, <<"?">>,
      LongPiece }

\* "http://h/7#x", "http://h/x7#7" and "http://h/x.png#x"
LinkExamples ==
    { <<"h", "t", "t", "p", ":", "/", "/", "h", "/", "7", "#", "x">>,
      <<"h", "t", "t", "p", ":", "/", "/", "h", "/", "x", "7", "#", "7">>,
      <<"h", "t", "t", "p", ":", "/", "/", "h", "/", "x", ".", "p", "n", "g", "#", "x">> }

\* the URLs is_link_valid is applied to: the examples and the URLs made of at
\* most `most` pieces
LinkInputs(most) ==
    LinkExamples \cup
    UNION { { Concat(ps) : ps \in [1..n -> LinkPieces] } : n \in 0..most }

LinkInit ==
    /\ NavInit
    /\ dom = EmptyDom
    /\ op = "is_link_valid"
    /\ arg \in LinkInputs(MaxUrlPieces)
    /\ res = NoRes

\* self.is_link_valid(arg) is called and returns
IsLinkValidCall ==
    /\ op = "is_link_valid"
    /\ op' = "is_link_valid_done"
    /\ res' = [kind |-> "value", value |-> IsLinkValid(arg)]
    /\ UNCHANGED <<arg, navVars, dom>>

LinkNext == IsLinkValidCall

SpecLink == LinkInit /\ [][LinkNext]_vars

(***************************************************************************)
(* Properties of is_link_valid                                             *)
(***************************************************************************)
\* the path has a last segment, behind a '/', made of digits only
EndsInNumericSegment(path) ==
    LET segments == Split(path, "/")
        last == segments[Len(segments)]
    IN  /\ Len(segments) > 1
        /\ last # <<>>
        /\ \A i \in DOMAIN last : last[i] \in DigitChars

\* u ends with a blocked extension, in any letter case
HasBlockedExtension(u) ==
    \E ext \in BlockedExtensions :
        /\ Len(ext) <= Len(u)
        /\ \A j \in DOMAIN ext : SameLetter(u[Len(u) - Len(ext) + j], ext[j])

NavigablePrefixes == {<<"h", "t", "t", "p">>, <<"h", "t", "t", "p", "s">>}

\* an anchor is kept in `links` when its href is not empty and starts with
\* one of the prefixes
IsHttpHref(href) ==
    /\ href # <<>>
    /\ \E p \in NavigablePrefixes : StartsWith(href, p)

RECURSIVE CleanSelected(_, _)
\* the list comprehension of the return statement, over links[i..]: the
\* displayed links whose url is valid, each cleaned
CleanSelected(links, i) ==
    IF i > Len(links)
    THEN <<>>
    ELSE (IF links[i].is_displayed /\ IsLinkValid(links[i].url)
          THEN <<CleanUrl(links[i].url)>>
          ELSE <<>>)
         \o CleanSelected(links, i + 1)

\* the try block of get_navigable on the <a> elements of the page
GetNavigable(elements) ==
    LET kept == SelectSeq(elements, LAMBDA e : IsHttpHref(e.href))
        links == [i \in DOMAIN kept |->
                     [url |-> kept[i].href, is_displayed |-> kept[i].displayed]]
    IN  CleanSelected(links, 1)

\* what reading an element can raise (the element went stale)
NavigableFailures == {"WebDriverException"}

\* the except clause of get_navigable: return []
GetNavigableExcept(e) == <<>>

\* most <a> elements on a page
MaxAnchors == 2

\* "http://h/a"
HrefPage ==
    <<"h", "t", "t", "p", ":", "/", "/", "h", "/", "a">>

\* "https://h/x.png#f"
HrefImageFragment ==
    <<"h", "t", "t", "p", "s", ":", "/", "/", "h", "/", "x", ".", "p", "n", "g", "#", "f">>

\* "http://h/x.png"
HrefImage ==
    <<"h", "t", "t", "p", ":", "/", "/", "h", "/", "x", ".", "p", "n", "g">>

\* "http://h/x.PNG?a=1"
HrefImageQuery ==
    <<"h", "t", "t", "p", ":", "/", "/", "h", "/", "x", ".", "P", "N", "G", "?", "a", "=", "1">>

\* "http://h/7"
HrefNumeric ==
    <<"h", "t", "t", "p", ":", "/", "/", "h", "/", "7">>

\* "http://h/7?q=1"
HrefNumericQuery ==
    <<"h", "t", "t", "p", ":", "/", "/", "h", "/", "7", "?", "q", "=", "1">>

\* "http://h/a?q=7&_t=1"
HrefSearch ==
    <<"h", "t", "t", "p", ":", "/", "/", "h", "/", "a", "?", "q", "=", "7", "&", "_", "t", "=", "1">>

\* "ftp://h/a"
HrefFtp ==
    <<"f", "t", "p", ":", "/", "/", "h", "/", "a">>

\* "http://h/a.json?_x=1"
HrefMetadataQuery ==
    <<"h", "t", "t", "p", ":", "/", "/", "h", "/", "a", ".", "j", "s", "o", "n", "?", "_", "x", "=", "1">>

\* "http:/x"
HrefNoHost ==
    <<"h", "t", "t", "p", ":", "/", "x">>
\* the href attributes of the <a> elements; <<>> is an element without href
Hrefs ==
    { <<>>, HrefPage,
      HrefImageFragment,
      HrefImage,
      HrefImageQuery,
      HrefNumeric,
      HrefNumericQuery,
      HrefSearch,
      HrefFtp,
      HrefMetadataQuery,
      HrefNoHost }

Anchors == {[href |-> h, displayed |-> d] : h \in Hrefs, d \in BOOLEAN}

\* the pages get_navigable is applied to: at most `most` <a> elements
AnchorLists(most) == UNION {[1..n -> Anchors] : n \in 0..most}

NavigableInit ==
    /\ NavInit
    /\ dom = EmptyDom
    /\ op = "get_navigable"
    /\ arg \in AnchorLists(MaxAnchors)
    /\ res = NoRes

\* self.get_navigable() is called on the page and returns
GetNavigableCall ==
    /\ op = "get_navigable"
    /\ op' = "get_navigable_done"
    /\ \E f \in {"none"} \cup NavigableFailures :
          IF f = "none"
          THEN res' = [kind |-> "value", exc |-> f, value |-> GetNavigable(arg)]
          ELSE res' = [kind |-> "value", exc |-> f, value |-> GetNavigableExcept(f)]
    /\ UNCHANGED <<arg, navVars, dom>>

NavigableNext == GetNavigableCall

SpecNavigable == NavigableInit /\ [][NavigableNext]_vars

(***************************************************************************)
(* Properties of get_navigable                                             *)
(***************************************************************************)
\* the NavigableLink invariant, on the string u itself
IsNavigableLink(u) ==
    /\ UrlParse(u).scheme # <<>>
    /\ UrlParse(u).netloc # <<>>
    /\ Len(u) <= 64
    /\ ~HasBlockedExtension(u)
    /\ ~EndsInNumericSegment(UrlParse(u).path)

\* C11: every URL get_navigable returns satisfies the NavigableLink invariant
\* as returned (scheme and host, at most 64 characters, no blocked extension
\* at its end, no numeric last path segment), whatever query string or
\* fragment the href carried, and is the cleaned href of a displayed link.
C11_NavigableInvariant ==
    op = "get_navigable_done" =>
        \A i \in DOMAIN res.value :
            /\ IsNavigableLink(res.value[i])
            /\ \E j \in DOMAIN arg :
                  /\ arg[j].displayed
                  /\ CleanUrl(arg[j].href) = res.value[i]

(***************************************************************************)
(* Form automation: Browser.fill_form_inputs                               *)
(***************************************************************************)
\* The document's input elements, in document order, are dom.fields; an
\* element is [text, type, value, checked, id, displayed] and its XPath is
\* modelled by its position. 0 stands for None.
\* An argument of fill_form_inputs is [isList, items]; an item is a string
\* written for a command ([kind |-> "command", label, value]), another string
\* ([kind |-> "text", s]) or an object that is no string ([kind |-> "int"]).
IsStr(item) == item.kind \in {"command", "text"}

\* the instruction format [<label>](<value>)
Format(label, value) == <<"[">> \o label \o <<"]", "(">> \o value \o <<")">>

\* the string the caller passes for an item
Render(item) ==
    IF item.kind = "command" THEN Format(item.label, item.value) ELSE item.s

\* `.` of a regular expression matches s[a..b]
NoLineBreak(s, a, b) == \A k \in a..b : s[k] # "\n"

\* the positions i of a "](" of s at which \[(.*?)\]\((.*?)\) can match from
\* the start of s: group 1 is s[2..i-1] and a ")" follows on the same line
MatchEnds(s) ==
    {i \in 2..(Len(s) - 2) :
        /\ s[i] = "]"
        /\ s[i + 1] = "("
        /\ NoLineBreak(s, 2, i - 1)
        /\ \E j \in (i + 2)..Len(s) : s[j] = ")" /\ NoLineBreak(s, i + 2, j - 1)}

NoMatch == [matched |-> FALSE, name |-> <<>>, value |-> <<>>]

\* MatchCommand with a fault: the pattern is searched anywhere in the string
\* up to its first "[", as re.search would
MatchCommandSearch(s) ==
    IF \E k \in DOMAIN s : s[k] = "[" /\ MatchEnds(SubSeq(s, k, Len(s))) # {}
    THEN LET k == CHOOSE k \in DOMAIN s :
                      /\ s[k] = "[" /\ MatchEnds(SubSeq(s, k, Len(s))) # {}
                      /\ \A h \in 1..(k - 1) :
                            ~(s[h] = "[" /\ MatchEnds(SubSeq(s, h, Len(s))) # {})
             t == SubSeq(s, k, Len(s))
             i == CHOOSE i \in MatchEnds(t) : \A h \in MatchEnds(t) : i <= h
             j == CHOOSE j \in (i + 2)..Len(t) :
                      t[j] = ")" /\ \A h \in (i + 2)..(j - 1) : t[h] # ")"
         IN  [matched |-> TRUE,
              name |-> SubSeq(t, 2, i - 1),
              value |-> SubSeq(t, i + 2, j - 1)]
    ELSE NoMatch

\* re.match(r'\[(.*?)\]\((.*?)\)', input_str) and match.groups(): both groups
\* are lazy, so group 1 ends at the first "](" that lets the rest match and
\* group 2 at the first ")" behind it
MatchCommand(s) ==
    IF Len(s) > 0 /\ s[1] = "[" /\ MatchEnds(s) # {}
    THEN LET i == CHOOSE i \in MatchEnds(s) : \A h \in MatchEnds(s) : i <= h
             j == CHOOSE j \in (i + 2)..Len(s) :
                      s[j] = ")" /\ \A h \in (i + 2)..(j - 1) : s[h] # ")"
         IN  [matched |-> TRUE,
              name |-> SubSeq(s, 2, i - 1),
              value |-> SubSeq(s, i + 2, j - 1)]
    ELSE NoMatch

\* find_inputs.js run on the document: one descriptor per input element, in
\* document order, with the element's label text, XPath, type and id
\* attributes and whether it is displayed
FindInputsJs(d) ==
    [i \in DOMAIN d.fields |->
        [text |-> d.fields[i].text, xpath |-> i, type |-> d.fields[i].type,
         id |-> d.fields[i].id, displayed |-> d.fields[i].displayed]]

\* FindInputXpathByName with a fault: the text of the field has to equal name
FindInputXpathByNameExact(inputs, name) ==
    IF \E i \in DOMAIN inputs : inputs[i].text = name
    THEN inputs[CHOOSE i \in DOMAIN inputs :
                    /\ inputs[i].text = name
                    /\ \A h \in 1..(i - 1) : inputs[h].text # name].xpath
    ELSE 0

\* find_input_xpath_by_name(inputs, name): the xpath of the first field whose
\* text contains name, or None
FindInputXpathByName(inputs, name) ==
    IF \E i \in DOMAIN inputs : Contains(inputs[i].text, name)
    THEN inputs[CHOOSE i \in DOMAIN inputs :
                    /\ Contains(inputs[i].text, name)
                    /\ \A h \in 1..(i - 1) : ~Contains(inputs[h].text, name)].xpath
    ELSE 0

BooleanTypes == {<<"c", "h", "e", "c", "k", "b", "o", "x">>, <<"r", "a", "d", "i", "o">>}

Checked == <<"c", "h", "e", "c", "k", "e", "d">>

Unchecked == <<"u", "n", "c", "h", "e", "c", "k", "e", "d">>

\* element.click() on an input element of the document: a checkbox changes
\* its state, a radio button becomes (or stays) selected
Click(d, x) ==
    LET e == d.fields[x]
    IN  [d EXCEPT !.fields[x].checked =
            IF e.type = <<"r", "a", "d", "i", "o">> THEN TRUE ELSE ~e.checked]

\* element.clear()
Clear(d, x) == [d EXCEPT !.fields[x].value = <<>>]

\* element.send_keys(value)
SendKeys(d, x, value) == [d EXCEPT !.fields[x].value = @ \o value]

\* one command the driver was given: at list item cmd, on the element at x
Act(cmd, x, act) == [cmd |-> cmd, xpath |-> x, act |-> act]

NoFailure == [step |-> "none", type |-> "none"]

\* FillExcept with a fault: the except clause lets the exception through
FillExceptRaise(e) == "raised"

\* the except clause of fill_form_inputs
FillExcept(e) == IF IsInstance(e, "Exception") THEN "false" ELSE "raised"

\* the loop body leaves the try block by exception e
FillRaise(d, log, e) == [ret |-> FillExcept(e), dom |-> d, log |-> log, exc |-> e]

\* (element.get_attribute("type") or "text").lower()
InputType(e) == StrLower(IF e.type = <<>> THEN <<"t", "e", "x", "t">> ELSE e.type)

\* FillElement with a fault: a text field is not cleared before the keys are
\* sent
FillElementAppend(d, i, x, value, fail, log) ==
    LET found == Append(log, Act(i, x, "find_element"))
    IN  IF fail.step = "find_element"
        THEN [ret |-> FillExcept(fail.type), dom |-> d, log |-> log,
              exc |-> fail.type, next |-> FALSE]
        ELSE IF InputType(d.fields[x]) \in BooleanTypes
        THEN IF d.fields[x].checked # (StrLower(value) = Checked)
             THEN IF fail.step = "click"
                  THEN [ret |-> FillExcept(fail.type), dom |-> d, log |-> found,
                        exc |-> fail.type, next |-> FALSE]
                  ELSE [ret |-> "true", dom |-> Click(d, x),
                        log |-> Append(found, Act(i, x, "click")),
                        exc |-> "none", next |-> TRUE]
             ELSE [ret |-> "true", dom |-> d, log |-> found,
                   exc |-> "none", next |-> TRUE]
        ELSE IF fail.step = "send_keys"
             THEN [ret |-> FillExcept(fail.type), dom |-> d, log |-> found,
                   exc |-> fail.type, next |-> FALSE]
             ELSE [ret |-> "true", dom |-> SendKeys(d, x, value),
                   log |-> Append(found, Act(i, x, "send_keys")),
                   exc |-> "none", next |-> TRUE]

\* Lines 399-411 for list item i, resolved to the element at x: the element
\* is looked up, a checkbox or radio button is clicked when its state is not
\* the requested one, any other field is cleared and typed into. `next` tells
\* whether the loop goes on.
FillElement(d, i, x, value, fail, log) ==
    LET found == Append(log, Act(i, x, "find_element"))
    IN  IF fail.step = "find_element"
        THEN [ret |-> FillExcept(fail.type), dom |-> d, log |-> log,
              exc |-> fail.type, next |-> FALSE]
        ELSE IF InputType(d.fields[x]) \in BooleanTypes
        THEN LET is_checked == d.fields[x].checked
                 should_be_checked == (StrLower(value) = Checked)
             IN  IF is_checked # should_be_checked
                 THEN IF fail.step = "click"
                      THEN [ret |-> FillExcept(fail.type), dom |-> d, log |-> found,
                            exc |-> fail.type, next |-> FALSE]
                      ELSE [ret |-> "true", dom |-> Click(d, x),
                            log |-> Append(found, Act(i, x, "click")),
                            exc |-> "none", next |-> TRUE]
                 ELSE [ret |-> "true", dom |-> d, log |-> found,
                       exc |-> "none", next |-> TRUE]
        ELSE LET cleared == Append(found, Act(i, x, "clear"))
             IN  IF fail.step = "send_keys"
                 THEN [ret |-> FillExcept(fail.type), dom |-> Clear(d, x),
                       log |-> cleared, exc |-> fail.type, next |-> FALSE]
                 ELSE [ret |-> "true", dom |-> SendKeys(Clear(d, x), x, value),
                       log |-> Append(cleared, Act(i, x, "send_keys")),
                       exc |-> "none", next |-> TRUE]

RECURSIVE FillLoop(_, _, _, _, _, _)
\* the for loop of fill_form_inputs from list item i on, and the return that
\* follows it
FillLoop(d, inputs, items, i, fail, log) ==
    IF i > Len(items)
    THEN [ret |-> "true", dom |-> d, log |-> log, exc |-> "none"]
    ELSE IF ~IsStr(items[i])
    THEN FillRaise(d, log, "TypeError")
    ELSE LET match == MatchCommand(Render(items[i]))
             name == Strip(match.name)
             value == Strip(match.value)
             xpath == FindInputXpathByName(inputs, name)
         IN  IF ~match.matched
             THEN FillLoop(d, inputs, items, i + 1, fail, log)
             ELSE IF xpath = 0
             THEN FillLoop(d, inputs, items, i + 1, fail, log)
             ELSE LET r == FillElement(d, i, xpath, value, fail, log)
                  IN  IF r.next
                      THEN FillLoop(r.dom, inputs, items, i + 1, fail, r.log)
                      ELSE [ret |-> r.ret, dom |-> r.dom, log |-> r.log,
                            exc |-> r.exc]

\* find_all_inputs(): [] when the wait for the body fails; an exception of
\* load_js or of execute_script leaves the method
FindAllInputs(d, fail) ==
    IF fail.step = "body"
    THEN [raised |-> FALSE, exc |-> "none", inputs |-> <<>>]
    ELSE IF fail.step \in {"load_js", "execute_script"}
    THEN [raised |-> TRUE, exc |-> fail.type, inputs |-> <<>>]
    ELSE [raised |-> FALSE, exc |-> "none", inputs |-> FindInputsJs(d)]

\* fill_form_inputs(input_list) on document d, where the driver fails as
\* `fail` says: what it returns, the document it leaves, the commands it gave
\* the driver, whether it queried the page for its inputs and the list
\* `inputs` that the query gave it
FillFormInputs(d, input_list, fail) ==
    IF ~input_list.isList
    THEN [ret |-> "false", dom |-> d, log |-> <<>>, exc |-> "none",
          queried |-> FALSE, inputs |-> <<>>]
    ELSE LET found == FindAllInputs(d, fail)
         IN  IF found.raised
             THEN [ret |-> "raised", dom |-> d, log |-> <<>>, exc |-> found.exc,
                   queried |-> TRUE, inputs |-> <<>>]
             ELSE LET r == FillLoop(d, found.inputs, input_list.items, 1, fail, <<>>)
                  IN  [ret |-> r.ret, dom |-> r.dom, log |-> r.log, exc |-> r.exc,
                       queried |-> TRUE, inputs |-> found.inputs]

\* most input elements on a page
MaxFields == 2

\* most items in the list given to fill_form_inputs
MaxCommands == 2

LabelEmail == <<"e", "m", "a", "i", "l">>

LabelMail == <<"m", "a", "i", "l">>

LabelNope == <<"n", "o", "p", "e">>

\* " mail ": a label with white space around it
LabelMailPadded == <<" ", "m", "a", "i", "l", " ">>

ValueOld == <<"o", "l", "d">>

\* "a@b.com"
ValueAddress == <<"a", "@", "b", ".", "c", "o", "m">>

\* " v ": a value with white space around it
ValuePadded == <<" ", "v", " ">>

\* "x[mail](v)"
TextPrefixed == <<"x", "[", "m", "a", "i", "l", "]", "(", "v", ")">>

TypeCheckbox == <<"c", "h", "e", "c", "k", "b", "o", "x">>

TypeRadio == <<"r", "a", "d", "i", "o">>

\* an <input> without a type attribute, holding a value
TextField(label, value) ==
    [text |-> label, type |-> <<>>, value |-> value, checked |-> FALSE,
     id |-> <<>>, displayed |-> TRUE]

\* a checkbox or a radio button
BooleanField(label, type, checked) ==
    [text |-> label, type |-> type, value |-> <<"o", "n">>, checked |-> checked,
     id |-> <<>>, displayed |-> TRUE]

FormFields ==
    { TextField(LabelEmail, ValueOld),
      BooleanField(LabelMail, TypeCheckbox, FALSE),
      BooleanField(LabelMail, TypeCheckbox, TRUE),
      BooleanField(LabelEmail, TypeRadio, TRUE) }

\* the documents with at most `most` input elements
FormPages(most) ==
    { [fields |-> fs, buttons |-> <<>>] :
        fs \in UNION {[1..n -> FormFields] : n \in 0..most} }

Command(label, value) == [kind |-> "command", label |-> label, value |-> value]

FillItems ==
    { Command(LabelEmail, ValueAddress),
      Command(LabelMail, ValuePadded),
      Command(LabelMailPadded, Checked),
      Command(LabelMail, Unchecked),
      Command(LabelNope, ValueAddress),
      [kind |-> "text", s |-> TextPrefixed],
      [kind |-> "int"] }

\* the arguments of fill_form_inputs: an object that is no list, and the
\* lists of at most `most` items
FillArgs(most) ==
    {[isList |-> FALSE, items |-> <<>>]}
    \cup { [isList |-> TRUE, items |-> s] :
             s \in UNION {[1..n -> FillItems] : n \in 0..most} }

Failure(step, type) == [step |-> step, type |-> type]

\* how the driver or the script file may fail during a call: the step that
\* raises, when the call reaches it, and the exception
FillFailures ==
    { NoFailure,
      Failure("body", "TimeoutException"),
      Failure("execute_script", "WebDriverException"),
      Failure("find_element", "WebDriverException"),
      Failure("click", "WebDriverException"),
      Failure("send_keys", "WebDriverException"),
      Failure("find_element", "KeyboardInterrupt") }

FillInit ==
    /\ NavInit
    /\ dom \in FormPages(MaxFields)
    /\ op = "idle"
    /\ arg = <<>>
    /\ res = NoRes

\* the result of a call, with the document the call found
FillResult(r, fail, round) ==
    [kind |-> "value", ret |-> r.ret, exc |-> r.exc, log |-> r.log,
     queried |-> r.queried, inputs |-> r.inputs, fail |-> fail, before |-> dom,
     round |-> round]

\* self.fill_form_inputs(input_list) is called and returns or raises
FillFormInputsCall ==
    /\ op = "idle"
    /\ \E input_list \in FillArgs(MaxCommands), fail \in FillFailures :
          LET r == FillFormInputs(dom, input_list, fail)
          IN  /\ arg' = input_list
              /\ dom' = r.dom
              /\ res' = FillResult(r, fail, 1)
    /\ op' = "fill_form_inputs_done"
    /\ UNCHANGED navVars

\* the caller repeats, with the same argument, a call that found the inputs
\* of the page and returned True
FillFormInputsAgain ==
    /\ op = "fill_form_inputs_done"
    /\ res.round = 1
    /\ res.ret = "true"
    /\ res.fail.step # "body"
    /\ LET r == FillFormInputs(dom, arg, NoFailure)
       IN  /\ dom' = r.dom
           /\ res' = FillResult(r, NoFailure, 2)
    /\ UNCHANGED <<op, arg, navVars>>

FillNext == FillFormInputsCall \/ FillFormInputsAgain

SpecFill == FillInit /\ [][FillNext]_vars

(***************************************************************************)
(* Properties of fill_form_inputs                                          *)
(***************************************************************************)
FillDone == op = "fill_form_inputs_done"

\* the call met no failure of the driver or of the script file
NoDriverFailure == res.exc \in {"none", "TypeError"} /\ res.fail.step # "body"

\* the driver commands of kind act that list item i caused
ActsOf(i, act) == {k \in DOMAIN res.log : res.log[k].cmd = i /\ res.log[k].act = act}

\* nothing was done to the element of log entry k after that entry
LastOnElement(k) ==
    \A h \in (k + 1)..Len(res.log) : res.log[h].xpath # res.log[k].xpath

\* a value the pattern reads back whole: no ")" and no line break
IsPlainValue(v) == \A k \in DOMAIN v : v[k] \notin {")", "\n"}

\* C12: after a call that typed the value v of a command "[label](v)" into a
\* text field as the last thing done to that field, the field holds exactly
\* v, whatever it held before; and repeating the call leaves every value as it
\* was and returns True again.
C12_LastWriteWins ==
    (FillDone /\ res.ret = "true") =>
        /\ \A i \in DOMAIN arg.items : \A k \in ActsOf(i, "send_keys") :
              LastOnElement(k) =>
                  dom.fields[res.log[k].xpath].value = arg.items[i].value
        /\ (res.round = 2 =>
              \A x \in DOMAIN dom.fields :
                  dom.fields[x].value = res.before.fields[x].value)

\* C12 as amended: the field holds v without the white space around it, for
\* a v that has no ")" and no line break; the rest as claimed.
C12_LastWriteWinsStripped ==
    (FillDone /\ res.ret = "true") =>
        /\ \A i \in DOMAIN arg.items : \A k \in ActsOf(i, "send_keys") :
              (LastOnElement(k) /\ IsPlainValue(arg.items[i].value)) =>
                  dom.fields[res.log[k].xpath].value = Strip(arg.items[i].value)
        /\ (res.round = 2 =>
              \A x \in DOMAIN dom.fields :
                  dom.fields[x].value = res.before.fields[x].value)

\* the field that held "old" was filled with "a@b.com" and then with " v ",
\* holds "v", and holds it still after the call was repeated
C12_Witness ==
    /\ FillDone
    /\ res.round = 2
    /\ res.ret = "true"
    /\ arg.items = <<Command(LabelEmail, ValueAddress), Command(LabelMail, ValuePadded)>>
    /\ Len(dom.fields) = 1
    /\ dom.fields[1].value = <<"v">>
    /\ ActsOf(2, "send_keys") # {}

\* the call had one command, a sentinel for a checkbox or radio button
OneSentinel ==
    /\ arg.isList
    /\ Len(arg.items) = 1
    /\ arg.items[1].kind = "command"
    /\ arg.items[1].value \in {Checked, Unchecked}
    /\ ActsOf(1, "find_element") # {}
    /\ \A k \in ActsOf(1, "find_element") :
          InputType(res.before.fields[res.log[k].xpath]) \in BooleanTypes

\* C13: a sentinel command for a checkbox or radio button clicks the element
\* exactly when its checked-state differs from the requested one, and the
\* same command applied a second time clicks nothing and leaves the element
\* as it is.
C13_BooleanIdempotent ==
    (FillDone /\ res.exc = "none" /\ OneSentinel) =>
        /\ \A k \in ActsOf(1, "find_element") :
              (ActsOf(1, "click") # {}) <=>
                  ( res.before.fields[res.log[k].xpath].checked
                        # (arg.items[1].value = Checked) )
        /\ (res.round = 2 => (ActsOf(1, "click") = {} /\ dom = res.before))

\* the label of a command, as name.strip() leaves it, occurs in the text of
\* an input of document d
Resolvable(d, label) ==
    \E x \in DOMAIN d.fields : Contains(d.fields[x].text, Strip(label))

\* a string that is not of the instruction format, or a command for a label
\* that no input of d has
IsSkipped(item, d) ==
    \/ item.kind = "text"
    \/ item.kind = "command" /\ ~Resolvable(d, item.label)

\* C14: in a list of strings, a malformed string and a command whose label
\* resolves to no input cause no driver command; every other command of the
\* list, later ones included, is applied to an element; the call returns True;
\* and a list of skipped items only leaves the page as it was.
C14_SkipAndContinue ==
    ( /\ FillDone
      /\ arg.isList
      /\ \A i \in DOMAIN arg.items : IsStr(arg.items[i])
      /\ res.exc = "none"
      /\ res.fail.step # "body" ) =>
        /\ res.ret = "true"
        /\ \A i \in DOMAIN arg.items :
              IF IsSkipped(arg.items[i], res.before)
              THEN \A k \in DOMAIN res.log : res.log[k].cmd # i
              ELSE ActsOf(i, "find_element") # {}
        /\ ( (\A i \in DOMAIN arg.items : IsSkipped(arg.items[i], res.before))
               => dom = res.before )

\* a malformed string came first and the command behind it was typed into the
\* field
C14_Witness ==
    /\ FillDone
    /\ res.round = 1
    /\ res.ret = "true"
    /\ arg.items = <<[kind |-> "text", s |-> TextPrefixed],
                     Command(LabelEmail, ValueAddress)>>
    /\ Len(dom.fields) = 1
    /\ dom.fields[1].value = ValueAddress
    /\ ActsOf(1, "find_element") = {}

\* C17 (fill_form_inputs): a failure of the driver (WebDriverException: the
\* driver is disconnected or the browser has crashed) during the call reaches
\* the caller as a raised exception, never as the result False.
C17_TransportReraised ==
    (FillDone /\ res.exc = "WebDriverException") => res.ret = "raised"

\* C19: with an argument that is no list, fill_form_inputs returns False
\* without querying the page for its inputs and without a driver command; with
\* a list that holds an item that is no string it returns False, unless the
\* input discovery raises or the user interrupts the call.
C19_ContractViolations ==
    FillDone =>
        /\ ( ~arg.isList =>
               /\ res.ret = "false"
               /\ ~res.queried
               /\ res.log = <<>>
               /\ dom = res.before )
        /\ ( ( /\ arg.isList
               /\ \E i \in DOMAIN arg.items : ~IsStr(arg.items[i])
               /\ res.fail.step \notin {"load_js", "execute_script"}
               /\ res.exc # "KeyboardInterrupt" ) => res.ret = "false" )

\* a command was applied before the item that is no string ended the call
\* with False
C19_Witness ==
    /\ FillDone
    /\ res.ret = "false"
    /\ res.exc = "TypeError"
    /\ arg.items = <<Command(LabelEmail, ValueAddress), [kind |-> "int"]>>
    /\ ActsOf(1, "send_keys") # {}

\* the elements that the driver commands of list item i went to
Targets(i) == {res.log[k].xpath : k \in {h \in DOMAIN res.log : res.log[h].cmd = i}}

\* the descriptors of the list `inputs` whose text contains label
Hits(inputs, label) == {x \in DOMAIN inputs : Contains(inputs[x].text, label)}

\* the commands of list item i went to the first descriptor of the list that
\* the call got from the page whose text contains label, and to no element
\* when there is none
AppliedToFirst(i, label) ==
    LET hits == Hits(res.inputs, label)
    IN  IF hits = {}
        THEN Targets(i) = {}
        ELSE Targets(i) = {res.inputs[CHOOSE x \in hits : \A y \in hits : x <= y].xpath}

\* the call asked the page for its inputs once, before its first command: the
\* list it got describes the document as the call found it
SnapshotTakenFirst ==
    /\ res.queried
    /\ res.inputs \in {<<>>, FindInputsJs(res.before)}
    /\ (res.fail.step # "body" => res.inputs = FindInputsJs(res.before))

\* the driver commands follow the order of the list
InListOrder ==
    \A h, k \in DOMAIN res.log : h < k => res.log[h].cmd <= res.log[k].cmd

\* C21: fill_form_inputs resolves every command against one list of inputs,
\* taken once before the first command; a command goes to the first
\* descriptor of that list whose text contains the command's label (equality
\* is not required) and to one element at most; the commands are applied in
\* list order.
C21_FirstSubstring ==
    (FillDone /\ arg.isList /\ res.ret = "true") =>
        /\ SnapshotTakenFirst
        /\ InListOrder
        /\ \A i \in DOMAIN arg.items :
              arg.items[i].kind = "command" =>
                  /\ Cardinality(Targets(i)) <= 1
                  /\ AppliedToFirst(i, arg.items[i].label)

\* C21 as amended: the label that is looked up is the label of the command
\* without the white space around it; the rest as claimed.
C21_FirstSubstringStripped ==
    (FillDone /\ arg.isList /\ res.ret = "true") =>
        /\ SnapshotTakenFirst
        /\ InListOrder
        /\ \A i \in DOMAIN arg.items :
              arg.items[i].kind = "command" =>
                  /\ Cardinality(Targets(i)) <= 1
                  /\ AppliedToFirst(i, Strip(arg.items[i].label))

\* "[mail]( v )" went to the first field, labelled "email", and not to the
\* second one, whose label is "mail"; the command behind it was applied after
\* it
C21_Witness ==
    /\ FillDone
    /\ res.round = 1
    /\ res.ret = "true"
    /\ res.before.fields = <<TextField(LabelEmail, ValueOld),
                             BooleanField(LabelMail, TypeCheckbox, FALSE)>>
    /\ arg.items = <<Command(LabelMail, ValuePadded), Command(LabelMailPadded, Checked)>>
    /\ Targets(1) = {1}
    /\ Targets(2) = {1}
    /\ dom.fields[1].value = Checked
    /\ ~dom.fields[2].checked

(***************************************************************************)
(* Form automation: Browser.get_buttons_xpath, click_element,              *)
(* find_and_click_btn and find_and_click_submission                        *)
(***************************************************************************)
\* The document's <button> and <input type="submit"> elements, in document
\* order, are dom.buttons; an element is [tag, label, displayed, enabled,
\* covered], where label is its text or its value attribute and covered
\* tells that another element would receive a click on it.

\* (button.text or button.get_attribute("value") or "").lower().replace(' ', '')
ButtonText(label) == SelectSeq(StrLower(label), LAMBDA c : c # " ")

\* the document positions of the elements of find_elements(By.TAG_NAME,
\* "button") followed by those of find_elements(By.XPATH,
\* "//input[@type='submit']")
FoundButtons(d) ==
    LET positions == [i \in DOMAIN d.buttons |-> i]
    IN  SelectSeq(positions, LAMBDA i : d.buttons[i].tag = "button")
        \o SelectSeq(positions, LAMBDA i : d.buttons[i].tag = "input")

\* the document position of the element that
\* (//button | //input[@type='submit'])[n] addresses: a union of node sets is
\* in document order
XPathElement(d, n) == n

RECURSIVE SortByLength(_)
\* result.sort(key=lambda x: len(x[0])): ascending length of the text, equal
\* lengths in their order in the list
SortByLength(result) ==
    IF result = <<>>
    THEN <<>>
    ELSE LET k == CHOOSE k \in DOMAIN result :
                      /\ \A h \in DOMAIN result : Len(result[k].text) <= Len(result[h].text)
                      /\ \A h \in 1..(k - 1) : Len(result[h].text) > Len(result[k].text)
         IN  <<result[k]>>
             \o SortByLength(SubSeq(result, 1, k - 1) \o SubSeq(result, k + 1, Len(result)))

\* get_buttons_xpath(): a (text, xpath) pair for every displayed and enabled
\* element of the list, where xpath holds the element's index in the list;
\* `element` keeps the document position the text was read from
GetButtonsXpath(d) ==
    LET buttons == FoundButtons(d)
        pairs == [i \in DOMAIN buttons |->
                     [text |-> ButtonText(d.buttons[buttons[i]].label),
                      xpath |-> i,
                      element |-> buttons[i]]]
    IN  SortByLength(SelectSeq(pairs, LAMBDA p :
            d.buttons[p.element].displayed /\ d.buttons[p.element].enabled))

\* EC.element_to_be_clickable((By.XPATH, xpath)) becomes true within the
\* timeout: the element is displayed and enabled
IsClickable(d, xpath) ==
    /\ XPathElement(d, xpath) \in DOMAIN d.buttons
    /\ d.buttons[XPathElement(d, xpath)].displayed
    /\ d.buttons[XPathElement(d, xpath)].enabled

\* the except clauses of click_element's outer try
ClickElementExcept(e) ==
    IF IsInstance(e, "TimeoutException") THEN "false"
    ELSE IF IsInstance(e, "Exception") THEN "false"
    ELSE "raised"

\* The inner try of click_element is left by exception e: its except clause
\* names ElementClickInterceptedException, which the module does not import,
\* so matching e against it raises NameError, whatever e is.
ClickElementInner(e) == "NameError"

\* click_element(xpath): what it returns and the document position of the
\* element it clicked (0: none)
ClickElement(d, xpath, fail) ==
    IF fail.step = "click_until"
    THEN [ret |-> ClickElementExcept(fail.type), exc |-> fail.type, clicked |-> 0]
    ELSE IF ~IsClickable(d, xpath)
    THEN [ret |-> ClickElementExcept("TimeoutException"),
          exc |-> "TimeoutException", clicked |-> 0]
    ELSE IF fail.step = "click"
    THEN [ret |-> ClickElementExcept(ClickElementInner(fail.type)),
          exc |-> fail.type, clicked |-> 0]
    ELSE IF d.buttons[XPathElement(d, xpath)].covered
    THEN [ret |-> ClickElementExcept(ClickElementInner("ElementClickInterceptedException")),
          exc |-> "ElementClickInterceptedException", clicked |-> 0]
    ELSE [ret |-> "true", exc |-> "none", clicked |-> XPathElement(d, xpath)]

\* the except clauses of find_and_click_btn
FindAndClickBtnExcept(e) ==
    IF IsInstance(e, "TimeoutException") THEN "false"
    ELSE IF IsInstance(e, "Exception") THEN "false"
    ELSE "raised"

\* no candidate was attempted
NoAttempt(r, e) ==
    [ret |-> r, exc |-> e, clicked |-> 0, candidate |-> 0, attempts |-> 0]

\* the try block of find_and_click_btn for the pair that matched
ClickCandidate(d, pair, fail) ==
    IF fail.step = "until"
    THEN [ret |-> FindAndClickBtnExcept(fail.type), exc |-> fail.type,
          clicked |-> 0, candidate |-> pair.element, attempts |-> 1]
    ELSE IF ~IsClickable(d, pair.xpath)
    THEN [ret |-> FindAndClickBtnExcept("TimeoutException"),
          exc |-> "TimeoutException",
          clicked |-> 0, candidate |-> pair.element, attempts |-> 1]
    ELSE LET r == ClickElement(d, pair.xpath, fail)
         IN  [ret |-> IF r.ret = "raised"
                      THEN FindAndClickBtnExcept(r.exc)
                      ELSE r.ret,
              exc |-> r.exc, clicked |-> r.clicked,
              candidate |-> pair.element, attempts |-> 1]

\* the index of the first pair of `buttons` with
\* btn_type.lower() in button_text.lower(), or 0
FirstMatch(buttons, btn_type) ==
    LET hits == {k \in DOMAIN buttons : Contains(StrLower(buttons[k].text), StrLower(btn_type))}
    IN  IF hits = {} THEN 0 ELSE CHOOSE k \in hits : \A h \in hits : k <= h

\* find_and_click_btn(btn_type): what it returns or raises, the element it
\* clicked, the element whose text matched and the number of pairs it tried
FindAndClickBtn(d, btn_type, fail) ==
    IF fail.step = "find_elements"
    THEN NoAttempt("raised", fail.type)
    ELSE LET buttons == GetButtonsXpath(d)
             k == FirstMatch(buttons, btn_type)
         IN  IF buttons = <<>> THEN NoAttempt("false", "none")
             ELSE IF k = 0 THEN NoAttempt("false", "none")
             ELSE ClickCandidate(d, buttons[k], fail)

\* possible_submissions
PossibleSubmissions ==
    << <<"l", "o", "g", "i", "n">>,
       <<"s", "u", "b", "m", "i", "t">>,
       <<"r", "e", "g", "i", "s", "t", "e", "r">>,
       <<"c", "a", "l", "c", "u", "l", "a", "t", "e">>,
       <<"l", "o", "g", "i", "n">>,
       <<"s", "u", "b", "m", "i", "t">>,
       <<"r", "e", "g", "i", "s", "t", "e", "r">>,
       <<"c", "a", "l", "c", "u", "l", "a", "t", "e">>,
       <<"s", "a", "v", "e">>,
       <<"s", "e", "n", "d">>,
       <<"c", "o", "n", "t", "i", "n", "u", "e">>,
       <<"a", "p", "p", "l", "y">>,
       <<"o", "k">>,
       <<"c", "o", "n", "f", "i", "r", "m">>,
       <<"n", "e", "x", "t">>,
       <<"p", "r", "o", "c", "e", "e", "d">>,
       <<"a", "c", "c", "e", "p", "t">>,
       <<"a", "g", "r", "e", "e">>,
       <<"y", "e", "s">>,
       <<"n", "o">>,
       <<"c", "a", "n", "c", "e", "l">>,
       <<"c", "l", "o", "s", "e">>,
       <<"d", "o", "n", "e">>,
       <<"f", "i", "n", "i", "s", "h">>,
       <<"s", "t", "a", "r", "t">>,
       <<"c", "a", "l", "c", "u", "l", "a", "t", "e">> >>

\* one word of the vocabulary was tried, with or without success
Tried(i, ok) == [word |-> i, ok |-> ok]

\* SubmissionStops with a fault: a success does not end the loop
SubmissionNeverStops(r) == FALSE

\* `if self.find_and_click_btn(submission, timeout): return True`
SubmissionStops(r) == r.ret = "true"

RECURSIVE SubmissionFrom(_, _, _, _, _)
\* the loop of find_and_click_submission from word i on, and the return that
\* follows it; tried and clicks are what the call did so far
SubmissionFrom(d, fail, i, tried, clicks) ==
    IF i > Len(PossibleSubmissions)
    THEN [ret |-> "false", exc |-> "none", tried |-> tried, clicks |-> clicks]
    ELSE LET r == FindAndClickBtn(d, PossibleSubmissions[i], fail)
             now == IF r.clicked = 0 THEN clicks ELSE Append(clicks, r.clicked)
         IN  IF r.ret = "raised"
             THEN [ret |-> "raised", exc |-> r.exc,
                   tried |-> Append(tried, Tried(i, FALSE)), clicks |-> now]
             ELSE IF SubmissionStops(r)
             THEN [ret |-> "true", exc |-> "none",
                   tried |-> Append(tried, Tried(i, TRUE)), clicks |-> now]
             ELSE SubmissionFrom(d, fail, i + 1,
                                 Append(tried, Tried(i, r.ret = "true")), now)

\* find_and_click_submission()
FindAndClickSubmission(d, fail) == SubmissionFrom(d, fail, 1, <<>>, <<>>)

\* most buttons on a page
MaxButtons == 2

LabelRegisterNow == <<"R", "e", "g", "i", "s", "t", "e", "r", " ", "N", "o", "w">>

LabelLogin == <<"L", "o", "g", "i", "n">>

LabelSearch == <<"S", "e", "a", "r", "c", "h">>

LabelLogIn == <<"L", "o", "g", " ", "I", "n">>

LabelOK == <<"O", "K">>

Button(tag, label, displayed, enabled, covered) ==
    [tag |-> tag, label |-> label, displayed |-> displayed, enabled |-> enabled,
     covered |-> covered]

ButtonElements ==
    { Button("button", LabelRegisterNow, TRUE, TRUE, FALSE),
      Button("input", LabelLogin, TRUE, TRUE, FALSE),
      Button("button", LabelSearch, TRUE, TRUE, FALSE),
      Button("button", LabelLogIn, FALSE, TRUE, FALSE),
      Button("input", LabelOK, TRUE, TRUE, TRUE),
      Button("button", LabelLogin, TRUE, FALSE, FALSE) }

\* the documents with at most `most` buttons
ButtonPages(most) ==
    { [fields |-> <<>>, buttons |-> bs] :
        bs \in UNION {[1..n -> ButtonElements] : n \in 0..most} }

\* the arguments of find_and_click_btn: "login", "Register", "ok", "log in"
ButtonTypes ==
    { <<"l", "o", "g", "i", "n">>,
      <<"R", "e", "g", "i", "s", "t", "e", "r">>,
      <<"o", "k">>,
      <<"l", "o", "g", " ", "i", "n">> }

\* how the driver may fail during a call
ClickFailures ==
    { NoFailure,
      Failure("find_elements", "WebDriverException"),
      Failure("until", "WebDriverException"),
      Failure("until", "KeyboardInterrupt"),
      Failure("click_until", "KeyboardInterrupt"),
      Failure("click", "WebDriverException"),
      Failure("click", "KeyboardInterrupt") }

ClickInit ==
    /\ NavInit
    /\ dom \in ButtonPages(MaxButtons)
    /\ op = "idle"
    /\ arg = <<>>
    /\ res = NoRes

\* self.find_and_click_btn(btn_type) is called and returns or raises
FindAndClickBtnCall ==
    /\ op = "idle"
    /\ \E btn_type \in ButtonTypes, fail \in ClickFailures :
          LET r == FindAndClickBtn(dom, btn_type, fail)
          IN  /\ arg' = btn_type
              /\ res' = [kind |-> "value", ret |-> r.ret, exc |-> r.exc,
                         clicked |-> r.clicked, candidate |-> r.candidate,
                         attempts |-> r.attempts, fail |-> fail]
    /\ op' = "find_and_click_btn_done"
    /\ UNCHANGED <<navVars, dom>>

\* self.find_and_click_submission() is called and returns or raises
FindAndClickSubmissionCall ==
    /\ op = "idle"
    /\ \E fail \in ClickFailures :
          LET r == FindAndClickSubmission(dom, fail)
          IN  res' = [kind |-> "value", ret |-> r.ret, exc |-> r.exc,
                      tried |-> r.tried, clicks |-> r.clicks, fail |-> fail]
    /\ op' = "find_and_click_submission_done"
    /\ UNCHANGED <<arg, navVars, dom>>

ClickNext == FindAndClickBtnCall \/ FindAndClickSubmissionCall

SpecClick == ClickInit /\ [][ClickNext]_vars

(***************************************************************************)
(* Properties of find_and_click_btn and find_and_click_submission          *)
(***************************************************************************)
\* the label of the button at document position x, as get_buttons_xpath
\* reports it
CandidateLabel(x) == ButtonText(dom.buttons[x].label)

\* the visible and enabled buttons whose label contains kind, in any letter
\* case
Matching(kind) ==
    {x \in DOMAIN dom.buttons :
        /\ dom.buttons[x].displayed
        /\ dom.buttons[x].enabled
        /\ Contains(CandidateLabel(x), StrLower(kind))}

\* those of them that come first in ascending label length
FirstRanked(kind) ==
    {x \in Matching(kind) :
        \A y \in Matching(kind) : Len(CandidateLabel(x)) <= Len(CandidateLabel(y))}

\* C15: find_and_click_btn(kind) attempts one candidate at most, the first in
\* ascending label length among the visible and enabled buttons whose label
\* contains kind in any letter case; it returns True only if it clicked that
\* button; it returns False, and raises nothing, when no button matches and
\* when the candidate cannot be clicked or the click is intercepted.
C15_OneCandidate ==
    (op = "find_and_click_btn_done" /\ res.fail = NoFailure) =>
        /\ res.attempts <= 1
        /\ res.ret \in {"true", "false"}
        /\ (Matching(arg) = {} =>
              (res.ret = "false" /\ res.attempts = 0 /\ res.clicked = 0))
        /\ (Matching(arg) # {} =>
              (res.attempts = 1 /\ res.candidate \in FirstRanked(arg)))
        /\ (res.ret = "true" => res.clicked = res.candidate)
        /\ (res.ret = "false" => res.clicked = 0)
        /\ ( (res.attempts = 1 /\ dom.buttons[res.candidate].covered)
               => res.ret = "false" )

\* the vocabulary words tried are the first ones of the list, in its order
TriedInOrder == \A k \in DOMAIN res.tried : res.tried[k].word = k

\* no button of the page has a label that contains a word of the vocabulary
NoSubmissionLabel ==
    \A x \in DOMAIN dom.buttons : \A i \in DOMAIN PossibleSubmissions :
        ~Contains(CandidateLabel(x), PossibleSubmissions[i])

\* C16: find_and_click_submission tries the words of its vocabulary in the
\* order of the list and stops at the first success: it clicks one button at
\* most, tries no word after a successful one, returns True on a page whose
\* only button is labelled "Register Now", matched by "register", and returns
\* False without raising on a page where no button label contains a word of
\* the vocabulary.
C16_FirstSuccessStops ==
    (op = "find_and_click_submission_done" /\ res.fail = NoFailure) =>
        /\ TriedInOrder
        /\ Len(res.clicks) <= 1
        /\ \A k \in 1..(Len(res.tried) - 1) : ~res.tried[k].ok
        /\ res.ret \in {"true", "false"}
        /\ (res.ret = "true" <=>
              (res.tried # <<>> /\ res.tried[Len(res.tried)].ok /\ Len(res.clicks) = 1))
        /\ (res.ret = "false" => Len(res.tried) = Len(PossibleSubmissions))
        /\ (dom.buttons = <<Button("button", LabelRegisterNow, TRUE, TRUE, FALSE)>> =>
              /\ res.ret = "true"
              /\ PossibleSubmissions[res.tried[Len(res.tried)].word]
                    = <<"r", "e", "g", "i", "s", "t", "e", "r">>
              /\ res.clicks = <<1>>)
        /\ (NoSubmissionLabel => res.ret = "false")

\* the only button, "Register Now", was clicked at the third word tried
C16_Witness ==
    /\ op = "find_and_click_submission_done"
    /\ res.fail = NoFailure
    /\ dom.buttons = <<Button("button", LabelRegisterNow, TRUE, TRUE, FALSE)>>
    /\ res.ret = "true"
    /\ Len(res.tried) = 3
    /\ res.clicks = <<1>>

\* C23: the locator of every candidate of get_buttons_xpath addresses the
\* element its label was read from, however <button> and <input type="submit">
\* elements are interleaved in the document; so the element that a successful
\* find_and_click_btn(kind) clicked is the visible and enabled element whose
\* label matched kind.
C23_LocatorAddressesLabel ==
    op = "find_and_click_btn_done" =>
        /\ \A k \in DOMAIN GetButtonsXpath(dom) :
              XPathElement(dom, GetButtonsXpath(dom)[k].xpath)
                  = GetButtonsXpath(dom)[k].element
        /\ (res.ret = "true" =>
              /\ res.clicked = res.candidate
              /\ res.clicked \in Matching(arg))

(***************************************************************************)
(* Element inspector: Browser.get_form_inputs                              *)
(***************************************************************************)
\* "No input forms found on the page."
NoInputForms ==
    <<"N", "o", " ", "i", "n", "p", "u", "t", " ", "f", "o", "r", "m", "s", " ",
      "f", "o", "u", "n", "d", " ", "o", "n", " ", "t", "h", "e", " ", "p", "a",
      "g", "e", ".">>

TypeText == <<"t", "e", "x", "t">>

TypeHidden == <<"h", "i", "d", "d", "e", "n">>

\* ["hidden", "submit", "button", "image"]
SkippedTypes ==
    { TypeHidden,
      <<"s", "u", "b", "m", "i", "t">>,
      <<"b", "u", "t", "t", "o", "n">>,
      <<"i", "m", "a", "g", "e">> }

\* element.is_selected() on a descriptor: the script's result reaches Python
\* as a dict (the code reads it with element.get and element["displayed"]),
\* and a dict has no attribute is_selected
IsSelected(element) == [raised |-> TRUE, exc |-> "AttributeError", value |-> FALSE]

\* the strings that the loop body of get_form_inputs appends for one
\* descriptor: one or none
FormStrings(element) ==
    LET input_type == IF element.type = <<>> THEN TypeText ELSE element.type
        input_name == IF element.text # <<>> THEN element.text
                      ELSE IF element.id # <<>> THEN element.id
                      ELSE input_type
        selected == IsSelected(element)
    IN  IF input_type \in SkippedTypes \/ ~element.displayed
        THEN <<>>
        ELSE IF input_type \in BooleanTypes
        THEN IF selected.raised /\ IsInstance(selected.exc, "Exception")
             THEN <<>>
             ELSE <<Format(input_name, IF selected.value THEN Checked ELSE Unchecked)>>
        ELSE <<Format(input_name, <<>>)>>

\* the for loop of get_form_inputs over the descriptors from i on
RECURSIVE FormStringsFrom(_, _)
FormStringsFrom(input_elements, i) ==
    IF i > Len(input_elements)
    THEN <<>>
    ELSE FormStrings(input_elements[i]) \o FormStringsFrom(input_elements, i + 1)

\* get_form_inputs() on document d: the list it returns, or the exception
\* that its except clause raises again
GetFormInputs(d, fail) ==
    LET found == FindAllInputs(d, fail)
    IN  IF found.raised
        THEN [ret |-> "raised", exc |-> found.exc, value |-> <<>>]
        ELSE IF found.inputs = <<>>
        THEN [ret |-> "value", exc |-> "none", value |-> <<NoInputForms>>]
        ELSE [ret |-> "value", exc |-> "none",
              value |-> FormStringsFrom(found.inputs, 1)]

\* most input elements on a page whose form is summarised
MaxInputs == 2

LabelAgree == <<"a", "g", "r", "e", "e">>

IdUser == <<"u", "s", "e", "r">>

\* an input element with the given label text, type and id attributes
Input(label, type, id, displayed, checked) ==
    [text |-> label, type |-> type, value |-> <<>>, checked |-> checked,
     id |-> id, displayed |-> displayed]

SummaryFields ==
    { Input(LabelEmail, <<>>, <<>>, TRUE, FALSE),
      Input(LabelEmail, TypeText, <<>>, FALSE, FALSE),
      Input(<<>>, TypeText, IdUser, TRUE, FALSE),
      Input(<<>>, <<>>, <<>>, TRUE, FALSE),
      Input(LabelNope, TypeHidden, <<>>, TRUE, FALSE),
      Input(LabelAgree, TypeCheckbox, <<>>, TRUE, TRUE),
      Input(LabelAgree, TypeCheckbox, <<>>, TRUE, FALSE),
      Input(LabelMail, TypeRadio, <<>>, TRUE, TRUE) }

\* the documents with at most `most` input elements
SummaryPages(most) ==
    { [fields |-> fs, buttons |-> <<>>] :
        fs \in UNION {[1..n -> SummaryFields] : n \in 0..most} }

\* how the input discovery may fail during a call
SummaryFailures ==
    { NoFailure,
      Failure("body", "TimeoutException"),
      Failure("load_js", "Exception"),
      Failure("execute_script", "WebDriverException") }

SummaryInit ==
    /\ NavInit
    /\ dom \in SummaryPages(MaxInputs)
    /\ op = "idle"
    /\ arg = <<>>
    /\ res = NoRes

\* self.get_form_inputs() is called and returns or raises
GetFormInputsCall ==
    /\ op = "idle"
    /\ \E fail \in SummaryFailures :
          LET r == GetFormInputs(dom, fail)
          IN  res' = [kind |-> "value", ret |-> r.ret, exc |-> r.exc,
                      value |-> r.value, fail |-> fail]
    /\ op' = "get_form_inputs_done"
    /\ UNCHANGED <<arg, dom, navVars>>

SummaryNext == GetFormInputsCall

SpecSummary == SummaryInit /\ [][SummaryNext]_vars

(***************************************************************************)
(* Properties of get_form_inputs                                           *)
(***************************************************************************)
\* the type of an input element, "text" when it has no type attribute
KindOf(e) == IF e.type = <<>> THEN TypeText ELSE e.type

\* the input elements that the summary is to list: displayed, and of a kind
\* other than hidden, submit, button and image
Listed(d) ==
    SelectSeq(d.fields, LAMBDA e : e.displayed /\ KindOf(e) \notin SkippedTypes)

\* the name an entry shows: the label text, else the id, else the kind
NameOf(e) ==
    IF e.text # <<>> THEN e.text ELSE IF e.id # <<>> THEN e.id ELSE KindOf(e)

\* the entry of the summary for input element e
EntryOf(e) ==
    IF KindOf(e) \in BooleanTypes
    THEN Format(NameOf(e), IF e.checked THEN Checked ELSE Unchecked)
    ELSE Format(NameOf(e), <<>>)

\* C24: get_form_inputs returns one entry per discovered input that is
\* displayed and of a kind other than hidden, submit, button and image:
\* "[name]()" for a text-like input, and "[name](checked)" or
\* "[name](unchecked)", as its state is, for every checkbox and radio button;
\* it returns the single entry "No input forms found on the page." only when
\* the discovery found no input.
C24_OneEntryPerInput ==
    (op = "get_form_inputs_done" /\ res.ret = "value") =>
        /\ ( (dom.fields # <<>> /\ res.fail.step # "body") =>
               res.value = [k \in DOMAIN Listed(dom) |-> EntryOf(Listed(dom)[k])] )
        /\ (res.value = <<NoInputForms>> =>
               (dom.fields = <<>> \/ res.fail.step = "body"))
====
